---- MODULE Spec2Model ----
(***************************************************************************)
(* Model of the Cafe24 -> Shopify scraper (web-scraper-python).            *)
(*                                                                         *)
(*   Spec           scraper/pipeline.py run_pipeline: load, dedupe, the    *)
(*                  per-item loop (client.fetch, parse, images,            *)
(*                  transform), export, archive, summary.                  *)
(*   RunSpec        api/run_manager.py RunManager on top of                *)
(*                  api/storage.py RunStore and a one-worker executor.     *)
(*   TransformSpec  scraper/transform.py raw_to_shopify, applied to        *)
(*                  bounded RawProductData records.                        *)
(*   ExportSpec     scraper/pipeline.py _export_csv on lists of            *)
(*                  ShopifyRecords with zero or more variants.             *)
(*   ArchiveSpec    _zip_directory and the archiving and summary steps of  *)
(*                  run_pipeline, for every state of the directories.      *)
(*   PrepareSpec    ImageManager.download_images and                       *)
(*                  _download_and_prepare on bounded URL lists.            *)
(*   ItemSpec       _process_single with its images, for two products.     *)
(*   SlugSpec       scraper/utils.py slugify on bounded strings.           *)
(*   StoreSpec      api/storage.py RunStore called directly.               *)
(*   PreviewSpec    api/app.py _load_preview_rows on bounded export files. *)
(*   ParseSpec      scraper/parser.py _parse_price and _to_float.          *)
(*   RunLiveSpec    RunSpec with fair scheduling of tasks and worker.      *)
(*   LoadSpec       scraper/ingest.py InputLoader.load on padded entries.  *)
(***************************************************************************)
EXTENDS Integers, Sequences, FiniteSets, TLC

VARIABLES
    \* ---- run_pipeline (scraper/pipeline.py) ----
    file,            \* the input document handed to InputLoader
    pc,              \* position of run_pipeline
    inputs,          \* the deduplicated list the loop iterates over
    idx,             \* number of loop iterations completed
    records,         \* List[ShopifyRecord] accumulator
    failures,        \* List[{url, error}] accumulator
    outcomes,        \* history: what the environment did to each item
    fetchLog,        \* history: URL of every Cafe24Client.fetch call
    delayCount,      \* history: number of _apply_delay calls
    imageRequested,  \* history: an image GET request has been issued
    csvWritten,      \* shopify_import.csv exists
    imagesZip,       \* PipelineResult.images_zip (None or a path)
    screenshotsZip,  \* PipelineResult.screenshots_zip
    summary,         \* content of run_summary.json (None until written)
    raisedAt,        \* history: where run_pipeline raised ("" if it did not)
    \* ---- RunManager / RunStore (api/run_manager.py, api/storage.py) ----
    runs,            \* the runs table: run id -> row (NoRow: no row)
    task,            \* position of the _run_background task of each run
    future,          \* state of the executor future of each run
    queue,           \* work queue of the ThreadPoolExecutor
    isShutdown,      \* the executor has been shut down
    nextRun,         \* the next fresh run id (uuid4)
    enqueueResult,   \* outcome of the last enqueue_run call
    storeLog,        \* history: the RunStore calls made for each run
    \* ---- raw_to_shopify / to_rows (scraper/transform.py, models.py) ----
    raw,             \* a RawProductData
    shop,            \* the ShopifyRecord made from it
    rows,            \* the export rows of that record
    tpc,             \* "raw", "record" or "rows"
    \* ---- _export_csv (scraper/pipeline.py) ----
    expRecords,      \* the records handed to _export_csv
    rowsOf,          \* history: the rows each record expanded to
    csvOut,          \* content of the export file
    epc,             \* "records" or "written"
    \* ---- archiving (scraper/pipeline.py lines 78-107, _zip_directory) ----
    arcSettings,     \* PipelineSettings: zip_outputs and the archive names
    dirImages,       \* output_dir/images: "missing", "empty" or "nonempty"
    dirScreenshots,  \* output_dir/screenshots, likewise
    arcDisk,         \* the archive files on disk
    zipReturned,     \* return value of a direct _zip_directory call
    arcResult,       \* images_zip, screenshots_zip and the summary dict
    apc,             \* "start", "zipped" or "returned"
    \* ---- download_images / _download_and_prepare ----
    imgUrls,         \* the URLs handed over
    imgWorld,        \* what the network serves for each of them
    imgKind,         \* "main", "gallery" or "detail"
    imgTemplate,     \* the detail template: "unset", "missing" or "present"
    imgDownloads,    \* List[ImageDownloadResult] of download_images
    imgFiles,        \* the files below output_dir/images
    imgPrepared,     \* outcome of _download_and_prepare
    ppc,             \* "start", "downloaded" or "prepared"
    \* ---- _process_single for two products, in detail ----
    itemPages,       \* per input URL: the parsed page and what is served
    itemIdx,         \* number of products handled
    itemStage,       \* position in _process_single: "main", "gallery",
                     \* "detail", "transform"; "done" after the last product
    itemRaw,         \* the RawProductData of the product being handled
    itemRecords,     \* the ShopifyRecords of the successful products
    itemFailures,    \* the URLs of the failed products
    itemFiles,       \* the files below output_dir/images
    itemWrites,      \* history: every file a download wrote, and for which product
    \* ---- slugify (scraper/utils.py) ----
    slugIn,          \* the argument: None or a string
    slugOut,         \* the slug returned
    spc,             \* "arg" or "done"
    \* ---- RunStore alone (api/storage.py) ----
    storeTable,      \* the runs table of a store used directly
    storeOp,         \* history: the last RunStore call and its arguments
    storeBefore,     \* history: get_run(run).status before that call
    \* ---- _load_preview_rows (api/app.py) ----
    previewFile,     \* the rows csv.DictReader yields for the export file
    previewLimit,    \* the limit argument
    previewOut,      \* the list _load_preview_rows returned
    vpc,             \* "idle", "arg" or "done"
    \* ---- Cafe24Parser._parse_price (scraper/parser.py) ----
    pricePage,       \* the price tags and nodes of the parsed page
    priceOut,        \* what _parse_price returned
    rpc,             \* "idle", "page" or "parsed"
    \* ---- InputLoader alone (scraper/ingest.py) ----
    loadFile,        \* the document handed to InputLoader
    loadOut,         \* what InputLoader(path).load() returned or raised
    lpc              \* "idle", "file" or "loaded"

pipeVars == <<file, pc, inputs, idx, records, failures, outcomes, fetchLog,
              delayCount, imageRequested, csvWritten, imagesZip,
              screenshotsZip, summary, raisedAt>>

runVars == <<runs, task, future, queue, isShutdown, nextRun, enqueueResult,
             storeLog>>

xfVars == <<raw, shop, rows, tpc>>

exportVars == <<expRecords, rowsOf, csvOut, epc>>

archiveVars == <<arcSettings, dirImages, dirScreenshots, arcDisk, zipReturned,
                 arcResult, apc>>

prepVars == <<imgUrls, imgWorld, imgKind, imgTemplate, imgDownloads, imgFiles,
              imgPrepared, ppc>>

itemVars == <<itemPages, itemIdx, itemStage, itemRaw, itemRecords, itemFailures,
              itemFiles, itemWrites>>

slugVars == <<slugIn, slugOut, spc>>

storeVars == <<storeTable, storeOp, storeBefore>>

previewVars == <<previewFile, previewLimit, previewOut, vpc>>

parseVars == <<pricePage, priceOut, rpc>>

loadVars == <<loadFile, loadOut, lpc>>

vars == <<pipeVars, runVars, xfVars, exportVars, archiveVars, prepVars, itemVars,
  slugVars, storeVars, previewVars, parseVars, loadVars>>

\* what the actions of one part leave alone
notPipe == <<runVars, xfVars, exportVars, archiveVars, prepVars, itemVars,
             slugVars, storeVars, previewVars, parseVars, loadVars>>

notRun == <<pipeVars, xfVars, exportVars, archiveVars, prepVars, itemVars,
            slugVars, storeVars, previewVars, parseVars, loadVars>>

notXf == <<pipeVars, runVars, exportVars, archiveVars, prepVars, itemVars,
           slugVars, storeVars, previewVars, parseVars, loadVars>>

notExport == <<pipeVars, runVars, xfVars, archiveVars, prepVars, itemVars,
               slugVars, storeVars, previewVars, parseVars, loadVars>>

notArchive == <<pipeVars, runVars, xfVars, exportVars, prepVars, itemVars,
                slugVars, storeVars, previewVars, parseVars, loadVars>>

notPrep == <<pipeVars, runVars, xfVars, exportVars, archiveVars, itemVars,
             slugVars, storeVars, previewVars, parseVars, loadVars>>

notItem == <<pipeVars, runVars, xfVars, exportVars, archiveVars, prepVars,
             slugVars, storeVars, previewVars, parseVars, loadVars>>

notSlug == <<pipeVars, runVars, xfVars, exportVars, archiveVars, prepVars,
             itemVars, storeVars, previewVars, parseVars, loadVars>>

notStore == <<pipeVars, runVars, xfVars, exportVars, archiveVars, prepVars,
              itemVars, slugVars, previewVars, parseVars, loadVars>>

notPreview == <<pipeVars, runVars, xfVars, exportVars, archiveVars, prepVars,
                itemVars, slugVars, storeVars, parseVars, loadVars>>

notParse == <<pipeVars, runVars, xfVars, exportVars, archiveVars, prepVars,
              itemVars, slugVars, storeVars, previewVars, loadVars>>

notLoad == <<pipeVars, runVars, xfVars, exportVars, archiveVars, prepVars,
             itemVars, slugVars, storeVars, previewVars, parseVars>>

None == "None"

\* ---------------------------------------------------------------------
\* Bounds
\* ---------------------------------------------------------------------
MaxInputs == 3      \* longest input document (rows / list entries)
MaxRuns == 3        \* most runs enqueued on one RunManager
MaxGallery == 1     \* most gallery images of one product
MaxVariants == 2    \* most variants of one ShopifyRecord
MaxRecords == 2     \* most records handed to _export_csv
MaxImages == 2      \* most URLs handed to download_images
MaxSlugLen == 4     \* longest string handed to slugify
MaxListed == 2      \* most gallery / detail images handed to raw_to_shopify
MaxPriceLen == 3    \* longest content of the price metadata tag
MaxStoredRuns == 2  \* run ids used with a RunStore that is called directly
MaxPreviewRows == 3 \* most rows of a previewed export file
MaxLimit == 3       \* largest limit handed to _load_preview_rows

\* ---------------------------------------------------------------------
\* Sequence helpers
\* ---------------------------------------------------------------------
Range(s) == {s[i] : i \in 1..Len(s)}

SeqsUpTo(S, n) == UNION {[1..k -> S] : k \in 0..n}

\* ---------------------------------------------------------------------
\* scraper/ingest.py
\* ---------------------------------------------------------------------
\* A cell of the url column / an element of the JSON list: the text it
\* holds once stripped, and whether it carries surrounding whitespace.
Entry(url, pad) == [url |-> url, pad |-> pad]

URLs == {"a", "b", "c"}

\* the cells run_pipeline is given: a URL or an empty cell
EntryValues == {Entry(u, FALSE) : u \in URLs} \cup {Entry("", FALSE)}

\* str.strip()
Strip(e) == e.url

\* truthiness of the unstripped string
Truthy(e) == e.url # "" \/ e.pad

SUPPORTED_EXTENSIONS == {".csv", ".json"}

\* an InputLoader that accepts every extension
validate_extension_skipped(f) == FALSE

\* InputLoader._validate_extension: TRUE when it raises
validate_extension_raises(f) == f.ext \notin SUPPORTED_EXTENSIONS

\* InputLoader._load_csv: strip first, then skip the empty ones
RECURSIVE load_csv(_)
load_csv(reader) ==
    IF reader = <<>> THEN <<>>
    ELSE LET url == Strip(Head(reader))
         IN  IF url = "" THEN load_csv(Tail(reader))
             ELSE <<url>> \o load_csv(Tail(reader))

\* InputLoader._load_json: test the raw value, then strip
RECURSIVE load_json(_)
load_json(data) ==
    IF data = <<>> THEN <<>>
    ELSE IF Truthy(Head(data))
         THEN <<Strip(Head(data))>> \o load_json(Tail(data))
         ELSE load_json(Tail(data))

\* InputLoader.__init__ + load: [raised, urls]
\* f.wellFormed: a CSV with a url column / a JSON document that is a list
InputLoader_load(f) ==
    IF validate_extension_raises(f) THEN [raised |-> TRUE, urls |-> <<>>]
    ELSE IF ~f.wellFormed THEN [raised |-> TRUE, urls |-> <<>>]
    ELSE IF f.ext = ".csv" THEN [raised |-> FALSE, urls |-> load_csv(f.entries)]
    ELSE [raised |-> FALSE, urls |-> load_json(f.entries)]

Extensions == {".csv", ".json", ".txt"}

Files ==
    {[ext |-> e, wellFormed |-> TRUE, entries |-> s] :
        e \in SUPPORTED_EXTENSIONS, s \in SeqsUpTo(EntryValues, MaxInputs)}
    \cup
    {[ext |-> e, wellFormed |-> FALSE, entries |-> <<>>] : e \in Extensions}
    \cup
    {[ext |-> ".txt", wellFormed |-> TRUE, entries |-> s] :
        s \in SeqsUpTo(EntryValues, 1)}

\* ---------------------------------------------------------------------
\* scraper/pipeline.py _dedupe_inputs
\* ---------------------------------------------------------------------
RECURSIVE dedupe_loop(_, _, _)
dedupe_loop(items, seen, deduped) ==
    IF items = <<>> THEN deduped
    ELSE IF Head(items) \in seen
         THEN dedupe_loop(Tail(items), seen, deduped)
         ELSE dedupe_loop(Tail(items), seen \cup {Head(items)},
                          Append(deduped, Head(items)))

Reverse(s) == [i \in 1..Len(s) |-> s[Len(s) + 1 - i]]

\* a dedupe that keeps the last occurrence of each URL
dedupe_inputs_keep_last(items) == Reverse(dedupe_loop(Reverse(items), {}, <<>>))

dedupe_inputs(items) == dedupe_loop(items, {}, <<>>)

\* ---------------------------------------------------------------------
\* scraper/client.py
\* ---------------------------------------------------------------------
\* What the network does to one GET of a product page.
NetOutcomes == {"ok", "http_error", "conn_error", "timeout"}

\* a client that tries a second time when the first GET fails
fetch_with_retry(url, net) ==
    IF net = "ok"
    THEN [raised |-> FALSE, error |-> None, calls |-> <<url>>, delays |-> 1]
    ELSE [raised |-> TRUE, error |-> net, calls |-> <<url, url>>,
          delays |-> IF net = "http_error" THEN 2 ELSE 0]

\* Cafe24Client.fetch: requests.get, then _apply_delay, then
\* raise_for_status.  requests.get raises on a connection failure and on
\* a timeout, and the statements after it are then not executed.
fetch(url, net) ==
    IF net \in {"conn_error", "timeout"}
    THEN [raised |-> TRUE, error |-> net, calls |-> <<url>>, delays |-> 0]
    ELSE IF net = "http_error"
    THEN [raised |-> TRUE, error |-> net, calls |-> <<url>>, delays |-> 1]
    ELSE [raised |-> FALSE, error |-> None, calls |-> <<url>>, delays |-> 1]

\* ---------------------------------------------------------------------
\* scraper/pipeline.py _process_single
\* ---------------------------------------------------------------------
\* The kinds of image URL the parser finds on a page.
Pages == [main : BOOLEAN, gallery : BOOLEAN, detail : BOOLEAN]

NoImages == [main |-> FALSE, gallery |-> FALSE, detail |-> FALSE]

\* The stage of _process_single after the fetch that raises ("ok": none).
\* An image stage raises from crop_detail_image / optimize_image, that is
\* only when the page has an image of that kind.
Stages == {"ok", "parse", "main", "gallery", "detail", "transform"}

\* What the environment does to one item: the network, the page served,
\* and the stage that raises.
Outcome(net, stage, page) == [net |-> net, stage |-> stage, page |-> page]

ItemOutcomes ==
    {Outcome(n, "ok", NoImages) : n \in NetOutcomes \ {"ok"}}
    \cup {Outcome("ok", "parse", NoImages)}
    \cup {Outcome("ok", s, p) : s \in {"ok", "transform"}, p \in Pages}
    \cup {Outcome("ok", "main", p) : p \in {q \in Pages : q.main}}
    \cup {Outcome("ok", "gallery", p) : p \in {q \in Pages : q.gallery}}
    \cup {Outcome("ok", "detail", p) : p \in {q \in Pages : q.detail}}

\* TRUE when one of the three _download_and_prepare calls is reached with
\* a non-empty URL list
downloads_issued(o) ==
    /\ o.stage # "parse"
    /\ \/ o.page.main
       \/ o.stage # "main" /\ o.page.gallery
       \/ o.stage \notin {"main", "gallery"} /\ o.page.detail

stage_error(stage) ==
    IF stage = "parse" THEN "parse_error"
    ELSE IF stage = "transform" THEN "transform_error"
    ELSE "image_error"

process_single(url, o) ==
    LET response == fetch(url, o.net)
    IN  IF response.raised
        THEN [raised |-> TRUE, error |-> response.error, record |-> None,
              calls |-> response.calls, delays |-> response.delays,
              downloads |-> FALSE]
        ELSE [raised |-> o.stage # "ok",
              error |-> IF o.stage = "ok" THEN None ELSE stage_error(o.stage),
              record |-> IF o.stage = "ok" THEN [url |-> url] ELSE None,
              calls |-> response.calls, delays |-> response.delays,
              downloads |-> downloads_issued(o)]

\* ---------------------------------------------------------------------
\* scraper/pipeline.py run_pipeline
\* ---------------------------------------------------------------------
\* a loop that catches the fetch errors only
item_handler_fetch_only(result) ==
    IF ~result.raised THEN "record"
    ELSE IF result.error \in {"http_error", "conn_error", "timeout"} THEN "failure"
    ELSE "propagate"

\* a loop without the try/except
item_handler_uncaught(result) == IF result.raised THEN "propagate" ELSE "record"

\* The try/except Exception around _process_single: what the loop does
\* with the result of one item.
item_handler(result) == IF result.raised THEN "failure" ELSE "record"

\* A path below the output directory: the file name as stem and suffix.
\* NoPath stands for Python's None.
NoPath == [stem |-> "", suffix |-> ""]

Path(stem, suffix) == [stem |-> stem, suffix |-> suffix]

\* Path.with_suffix
with_suffix(path, suffix) == [stem |-> path.stem, suffix |-> suffix]

\* the optional keys of the summary dict
summary_archives(images_zip, screenshots_zip) ==
    [k \in (IF images_zip # NoPath THEN {"images_archive"} ELSE {})
           \cup (IF screenshots_zip # NoPath THEN {"screenshots_archive"} ELSE {}) |->
        IF k = "images_archive" THEN images_zip ELSE screenshots_zip]

\* a summary that counts the inputs instead of the failures
write_summary_miscount(recs, fails, images_zip, screenshots_zip) ==
    [success_count |-> Len(recs),
     failure_count |-> Len(recs) + Len(fails),
     failures |-> fails]
    @@ summary_archives(images_zip, screenshots_zip)

\* _write_summary: the dict that is dumped to run_summary.json
write_summary(recs, fails, images_zip, screenshots_zip) ==
    [success_count |-> Len(recs),
     failure_count |-> Len(fails),
     failures |-> fails]
    @@ summary_archives(images_zip, screenshots_zip)

NoZip == [path |-> NoPath, created |-> {}]

\* an archiver that returns the destination it was given
zip_directory_keeps_name(dir, destination) ==
    IF dir \in {"missing", "empty"} THEN NoZip
    ELSE [path |-> destination,
          created |-> {with_suffix(with_suffix(destination, ""), ".zip")}]

\* _zip_directory: dir is "missing", "empty" or "nonempty"; the result is
\* the path returned and the files shutil.make_archive created
zip_directory(dir, destination) ==
    IF dir \in {"missing", "empty"} THEN NoZip
    ELSE [path |-> IF destination.suffix = ".zip" THEN destination
                   ELSE with_suffix(destination, ".zip"),
          created |-> {with_suffix(with_suffix(destination, ""), ".zip")}]

\* lines 78-89 of run_pipeline
archive_outputs(settings, imagesDir, screenshotsDir) ==
    LET images == IF settings.zip_outputs
                  THEN zip_directory(imagesDir, settings.zip_images_name)
                  ELSE NoZip
        screenshots == IF settings.zip_outputs /\ screenshotsDir # "missing"
                       THEN zip_directory(screenshotsDir,
                                          settings.zip_screenshots_name)
                       ELSE NoZip
    IN  [images_zip |-> images.path, screenshots_zip |-> screenshots.path,
         created |-> images.created \cup screenshots.created]

\* PipelineSettings: the fields that the archiving reads
PipelineSettings(zip_outputs, zip_images_name, zip_screenshots_name) ==
    [zip_outputs |-> zip_outputs, zip_images_name |-> zip_images_name,
     zip_screenshots_name |-> zip_screenshots_name]

PipelineInit ==
    /\ file \in Files
    /\ pc = "start"
    /\ inputs = <<>>
    /\ idx = 0
    /\ records = <<>>
    /\ failures = <<>>
    /\ outcomes = <<>>
    /\ fetchLog = <<>>
    /\ delayCount = 0
    /\ imageRequested = FALSE
    /\ csvWritten = FALSE
    /\ imagesZip = NoPath
    /\ screenshotsZip = NoPath
    /\ summary = None
    /\ raisedAt = ""

\* lines 48-58: InputLoader(...), loader.load(), _dedupe_inputs, and the
\* construction of client, parser and ImageManager (which creates the
\* images directory and raises when it cannot).
Load ==
    /\ pc = "start"
    /\ LET loaded == InputLoader_load(file)
       IN  \E mkdirFails \in BOOLEAN :
             IF loaded.raised \/ mkdirFails
             THEN /\ pc' = "raised"
                  /\ raisedAt' = "setup"
                  /\ UNCHANGED inputs
             ELSE /\ pc' = "loop"
                  /\ inputs' = dedupe_inputs(loaded.urls)
                  /\ UNCHANGED raisedAt
    /\ UNCHANGED <<file, idx, records, failures, outcomes, fetchLog, delayCount,
                   imageRequested, csvWritten, imagesZip, screenshotsZip, summary>>
    /\ UNCHANGED notPipe

\* lines 60-73: one iteration of the for loop
ProcessItem ==
    /\ pc = "loop"
    /\ idx < Len(inputs)
    /\ \E o \in ItemOutcomes :
         LET product == inputs[idx + 1]
             result == process_single(product, o)
             h == item_handler(result)
         IN  /\ fetchLog' = fetchLog \o result.calls
             /\ delayCount' = delayCount + result.delays
             /\ imageRequested' = (imageRequested \/ result.downloads)
             /\ outcomes' = Append(outcomes, [url |-> product, raised |-> result.raised,
                                              error |-> result.error])
             /\ IF h = "record"
                THEN /\ records' = Append(records, result.record)
                     /\ idx' = idx + 1
                     /\ UNCHANGED <<failures, pc, raisedAt>>
                ELSE IF h = "failure"
                THEN /\ failures' = Append(failures, [url |-> product, error |-> result.error])
                     /\ idx' = idx + 1
                     /\ UNCHANGED <<records, pc, raisedAt>>
                ELSE /\ pc' = "raised"
                     /\ raisedAt' = "item"
                     /\ UNCHANGED <<records, failures, idx>>
    /\ UNCHANGED <<file, inputs, csvWritten, imagesZip, screenshotsZip, summary>>
    /\ UNCHANGED notPipe

\* lines 75-76: _export_csv; DataFrame.to_csv raises when the file cannot
\* be written
ExportCsv ==
    /\ pc = "loop"
    /\ idx = Len(inputs)
    /\ \E writeFails \in BOOLEAN :
         IF writeFails
         THEN /\ pc' = "raised"
              /\ raisedAt' = "export"
              /\ UNCHANGED csvWritten
         ELSE /\ pc' = "archive"
              /\ csvWritten' = TRUE
              /\ UNCHANGED raisedAt
    /\ UNCHANGED <<file, inputs, idx, records, failures, outcomes, fetchLog,
                   delayCount, imageRequested, imagesZip, screenshotsZip, summary>>
    /\ UNCHANGED notPipe

\* lines 78-107: the two archives, _write_summary and the return.
\* settings.zip_outputs is read here and nowhere else, so its value is
\* drawn here; so is the state of the two directories.
Finish ==
    /\ pc = "archive"
    /\ \E zip_outputs \in BOOLEAN,
          imagesDir \in {"empty", "nonempty"},
          screenshotsDir \in {"missing", "empty", "nonempty"},
          fails \in {"", "archive", "summary"} :
         LET archived == archive_outputs(
                             PipelineSettings(zip_outputs,
                                              Path("images", ".zip"),
                                              Path("screenshots", ".zip")),
                             imagesDir, screenshotsDir)
             images_zip == archived.images_zip
             screenshots_zip == archived.screenshots_zip
         IN  IF fails = "archive"
             THEN \* shutil.make_archive raises
                  /\ zip_outputs
                  /\ imagesDir = "nonempty" \/ screenshotsDir = "nonempty"
                  /\ pc' = "raised"
                  /\ raisedAt' = "archive"
                  /\ UNCHANGED <<imagesZip, screenshotsZip, summary>>
             ELSE IF fails = "summary"
             THEN \* path.write_text raises: no PipelineResult is built
                  /\ pc' = "raised"
                  /\ raisedAt' = "summary"
                  /\ UNCHANGED <<imagesZip, screenshotsZip, summary>>
             ELSE /\ pc' = "returned"
                  /\ imagesZip' = images_zip
                  /\ screenshotsZip' = screenshots_zip
                  /\ summary' = write_summary(records, failures,
                                              images_zip, screenshots_zip)
                  /\ UNCHANGED raisedAt
    /\ UNCHANGED <<file, inputs, idx, records, failures, outcomes, fetchLog,
                   delayCount, imageRequested, csvWritten>>
    /\ UNCHANGED notPipe

\* ---------------------------------------------------------------------
\* api/storage.py RunStore
\* ---------------------------------------------------------------------
RunIds == 1..MaxRuns

\* the table holds no row for a run id
NoRow == [status |-> "absent", input_filename |-> "", source |-> "",
          csv_path |-> [text |-> <<>>], error |-> None, archive_path |-> None]

\* SQL NULL in a TEXT column that holds a path
NULL == [text |-> <<>>]

\* str(path) as it is bound to a TEXT column
str_path(path) == [text |-> <<path.stem, path.suffix>>]

NoRuns == [r \in RunIds |-> NoRow]

StatusOf(table, r) == table[r].status

\* a create_run that stores the run as already running
create_run_as_running(table, r, input_filename, source, status) ==
    [table EXCEPT ![r] = [status |-> "running", input_filename |-> input_filename,
                          source |-> source, csv_path |-> NULL,
                          error |-> None, archive_path |-> None]]

\* RunStore.create_run: INSERT INTO runs
create_run(table, r, input_filename, source, status) ==
    [table EXCEPT ![r] = [status |-> status, input_filename |-> input_filename,
                          source |-> source, csv_path |-> NULL,
                          error |-> None, archive_path |-> None]]

\* RunStore._update_fields: UPDATE runs SET ... WHERE id = ?
\* fields: the columns to assign
update_fields(table, r, fields) ==
    IF table[r] = NoRow THEN table
    ELSE [table EXCEPT ![r] =
            [c \in DOMAIN table[r] |->
                IF c \in DOMAIN fields THEN fields[c] ELSE table[r][c]]]

\* a mark_running whose UPDATE is lost
mark_running_lost(table, r) == table

\* RunStore.mark_running
mark_running(table, r) == update_fields(table, r, [status |-> "running"])

\* RunStore.mark_succeeded
\* csv_path: a Path, or NoPath for None
mark_succeeded(table, r, csv_path, archive_path) ==
    update_fields(table, r,
        [status |-> "succeeded",
         csv_path |-> IF csv_path # NoPath THEN str_path(csv_path) ELSE NULL,
         archive_path |-> archive_path, error |-> None])

\* a mark_failed that leaves a succeeded run as it is
mark_failed_keeps_success(table, r, error) ==
    IF table[r].status = "succeeded" THEN table
    ELSE update_fields(table, r, [status |-> "failed", error |-> error])

\* RunStore.mark_failed
mark_failed(table, r, error) ==
    update_fields(table, r, [status |-> "failed", error |-> error])

\* class RunStatus(str, Enum): member name -> value
RunStatus == [QUEUED |-> "queued", RUNNING |-> "running",
              SUCCEEDED |-> "succeeded", FAILED |-> "failed"]

\* RunStatus(value): the member that has the value
RunStatusOf(value) == CHOOSE m \in DOMAIN RunStatus : RunStatus[m] = value

\* get_run found no row
NoRunRecord == [status |-> "", input_filename |-> "", source |-> "",
                csv_path |-> NoPath, error |-> None]

\* RunStore._row_to_record
row_to_record(row) ==
    [status |-> RunStatusOf(row.status),
     input_filename |-> row.input_filename,
     source |-> row.source,
     csv_path |-> IF row.csv_path.text # <<>>
                  THEN Path(row.csv_path.text[1], row.csv_path.text[2])
                  ELSE NoPath,
     error |-> row.error]

\* RunStore.get_run: SELECT * FROM runs WHERE id = ?
get_run(table, r) ==
    IF table[r] = NoRow THEN NoRunRecord ELSE row_to_record(table[r])

\* ---------------------------------------------------------------------
\* api/run_manager.py RunManager
\* ---------------------------------------------------------------------
\* ThreadPoolExecutor(max_workers=1)
max_workers == 1

\* _prepare_archive: the path it returns, below the output directory
prepare_archive == "deliverables.zip"

\* self.store.<method>(run_id, ...) is called with the given argument
Called(log, r, method, arg) ==
    [log EXCEPT ![r] = Append(@, [method |-> method, arg |-> arg])]

Executing(fut) == {r \in RunIds : fut[r] = "running"}

\* an executor that starts a work item whenever one is queued
worker_always_available(fut) == TRUE

\* the executor has a thread free to take a work item
worker_available(fut) == Cardinality(Executing(fut)) < max_workers

PipelineIdle ==
    /\ file = [ext |-> ".csv", wellFormed |-> TRUE, entries |-> <<>>]
    /\ pc = "idle"
    /\ inputs = <<>>
    /\ idx = 0
    /\ records = <<>>
    /\ failures = <<>>
    /\ outcomes = <<>>
    /\ fetchLog = <<>>
    /\ delayCount = 0
    /\ imageRequested = FALSE
    /\ csvWritten = FALSE
    /\ imagesZip = NoPath
    /\ screenshotsZip = NoPath
    /\ summary = None
    /\ raisedAt = ""

RunInit ==
    /\ runs = NoRuns
    /\ task = [r \in RunIds |-> "none"]
    /\ future = [r \in RunIds |-> "none"]
    /\ queue = <<>>
    /\ isShutdown = FALSE
    /\ nextRun = 1
    /\ enqueueResult = [raised |-> FALSE, run_id |-> 0]
    /\ storeLog = [r \in RunIds |-> <<>>]

\* The event loop runs one callback at a time: no other coroutine runs
\* between two statements of _run_background that no await separates.
LoopFree == \A r \in RunIds : task[r] # "started"

\* RunManager.enqueue_run
EnqueueRun ==
    /\ LoopFree
    /\ nextRun <= MaxRuns
    /\ \E exists \in BOOLEAN :
         IF ~exists
         THEN \* FileNotFoundError
              /\ enqueueResult' = [raised |-> TRUE, run_id |-> 0]
              /\ UNCHANGED <<runs, task, nextRun, storeLog>>
         ELSE /\ runs' = create_run(runs, nextRun, "input.csv", "upload", "queued")
              /\ storeLog' = Called(storeLog, nextRun, "create_run", "queued")
              /\ task' = [task EXCEPT ![nextRun] = "scheduled"]
              /\ nextRun' = nextRun + 1
              /\ enqueueResult' = [raised |-> FALSE, run_id |-> nextRun]
    /\ UNCHANGED <<future, queue, isShutdown>>
    /\ UNCHANGED notRun

\* RunManager._run_background, line 54: mark_running commits the
\* RUNNING status.  The event loop starts tasks in the order they were
\* created.
TaskStart(r) ==
    /\ LoopFree
    /\ task[r] = "scheduled"
    /\ \A q \in RunIds : q < r => task[q] # "scheduled"
    /\ runs' = mark_running(runs, r)
    /\ storeLog' = Called(storeLog, r, "mark_running", None)
    /\ task' = [task EXCEPT ![r] = "started"]
    /\ UNCHANGED <<future, queue, isShutdown, nextRun, enqueueResult>>
    /\ UNCHANGED notRun

\* RunManager._run_background, lines 55-64, up to the await:
\* _build_pipeline_settings (mkdir may raise, outside the try) and
\* loop.run_in_executor (executor.submit raises RuntimeError after
\* shutdown, inside the try).
TaskSubmit(r) ==
    /\ task[r] = "started"
    /\ \E buildFails \in BOOLEAN :
         IF buildFails
         THEN /\ task' = [task EXCEPT ![r] = "crashed"]
              /\ UNCHANGED <<runs, future, queue, storeLog>>
         ELSE IF isShutdown
         THEN /\ runs' = mark_failed(runs, r, "RuntimeError")
              /\ storeLog' = Called(storeLog, r, "mark_failed", "RuntimeError")
              /\ task' = [task EXCEPT ![r] = "finished"]
              /\ UNCHANGED <<future, queue>>
         ELSE /\ task' = [task EXCEPT ![r] = "awaiting"]
              /\ future' = [future EXCEPT ![r] = "pending"]
              /\ queue' = Append(queue, r)
              /\ UNCHANGED <<runs, storeLog>>
    /\ UNCHANGED <<isShutdown, nextRun, enqueueResult>>
    /\ UNCHANGED notRun

\* the executor thread takes the next work item and calls
\* RunManager._execute_pipeline
WorkerPick ==
    /\ queue # <<>>
    /\ worker_available(future)
    /\ future' = [future EXCEPT ![Head(queue)] = "running"]
    /\ queue' = Tail(queue)
    /\ UNCHANGED <<runs, task, isShutdown, nextRun, enqueueResult, storeLog>>
    /\ UNCHANGED notRun

\* _execute_pipeline returns or raises
WorkerFinish(r) ==
    /\ future[r] = "running"
    /\ \E outcome \in {"result", "exception"} :
         future' = [future EXCEPT ![r] = outcome]
    /\ UNCHANGED <<runs, task, queue, isShutdown, nextRun, enqueueResult,
                   storeLog>>
    /\ UNCHANGED notRun

\* RunManager._run_background after its await.  A cancelled future
\* raises asyncio.CancelledError, a BaseException that `except Exception`
\* does not catch; _prepare_archive is outside the try.
TaskResume(r) ==
    /\ LoopFree
    /\ task[r] = "awaiting"
    /\ future[r] \in {"result", "exception", "cancelled"}
    /\ IF future[r] = "exception"
       THEN /\ runs' = mark_failed(runs, r, "Exception")
            /\ storeLog' = Called(storeLog, r, "mark_failed", "Exception")
            /\ task' = [task EXCEPT ![r] = "finished"]
       ELSE IF future[r] = "cancelled"
       THEN /\ task' = [task EXCEPT ![r] = "crashed"]
            /\ UNCHANGED <<runs, storeLog>>
       ELSE \E archiveFails \in BOOLEAN :
              IF archiveFails
              THEN /\ task' = [task EXCEPT ![r] = "crashed"]
                   /\ UNCHANGED <<runs, storeLog>>
              ELSE /\ runs' = mark_succeeded(runs, r, Path("shopify", ".csv"),
                                                 prepare_archive)
                   /\ storeLog' = Called(storeLog, r, "mark_succeeded",
                                          prepare_archive)
                   /\ task' = [task EXCEPT ![r] = "finished"]
    /\ UNCHANGED <<future, queue, isShutdown, nextRun, enqueueResult>>
    /\ UNCHANGED notRun

\* RunManager.shutdown: executor.shutdown(wait=False, cancel_futures=True)
\* cancels the work items still queued; the one executing goes on.
Shutdown ==
    /\ LoopFree
    /\ ~isShutdown
    /\ isShutdown' = TRUE
    /\ future' = [r \in RunIds |->
                    IF r \in Range(queue) THEN "cancelled" ELSE future[r]]
    /\ queue' = <<>>
    /\ UNCHANGED <<runs, task, nextRun, enqueueResult, storeLog>>
    /\ UNCHANGED notRun

\* ---------------------------------------------------------------------
\* scraper/utils.py slugify
\* ---------------------------------------------------------------------
\* Text that is transformed character by character is a sequence of
\* one-character strings; an Optional value is a record [has, v].
NoneStr == [has |-> FALSE, v |-> <<>>]

Str(s) == [has |-> TRUE, v |-> s]

NoneNum == [has |-> FALSE, v |-> 0]

Num(n) == [has |-> TRUE, v |-> n]

\* Python truthiness of an Optional[str] / Optional[float]
TruthyStr(x) == x.has /\ x.v # <<>>

TruthyNum(x) == x.has /\ x.v # 0

\* `a or b`
OrElse(a, b) == IF TruthyStr(a) THEN a ELSE b

Uppercase ==
    <<"A", "B", "C", "D", "E", "F", "G", "H", "I", "J", "K", "L", "M",
      "N", "O", "P", "Q", "R", "S", "T", "U", "V", "W", "X", "Y", "Z", "É">>

Lowercase ==
    <<"a", "b", "c", "d", "e", "f", "g", "h", "i", "j", "k", "l", "m",
      "n", "o", "p", "q", "r", "s", "t", "u", "v", "w", "x", "y", "z", "é">>

\* str.lower(), one character at a time
Lower(c) ==
    IF \E i \in 1..Len(Uppercase) : Uppercase[i] = c
    THEN Lowercase[CHOOSE i \in 1..Len(Uppercase) : Uppercase[i] = c]
    ELSE c

\* the characters outside _SLUGIFY_PATTERN = [^a-z0-9-]+
SlugChars ==
    {"a", "b", "c", "d", "e", "f", "g", "h", "i", "j", "k", "l", "m",
     "n", "o", "p", "q", "r", "s", "t", "u", "v", "w", "x", "y", "z",
     "0", "1", "2", "3", "4", "5", "6", "7", "8", "9", "-"}

\* what str.strip() removes
Whitespace == {" ", "\t", "\n"}

RECURSIVE strip_left(_, _)
strip_left(s, chars) ==
    IF s # <<>> /\ Head(s) \in chars THEN strip_left(Tail(s), chars) ELSE s

RECURSIVE strip_right(_, _)
strip_right(s, chars) ==
    IF s # <<>> /\ s[Len(s)] \in chars
    THEN strip_right(SubSeq(s, 1, Len(s) - 1), chars) ELSE s

\* str.strip(chars)
strip(s, chars) == strip_right(strip_left(s, chars), chars)

\* re.sub(pattern+, "-", s) for a pattern that matches the characters of
\* `bad`: every maximal run becomes one dash
RECURSIVE sub_runs(_, _, _)
sub_runs(s, bad, inRun) ==
    IF s = <<>> THEN <<>>
    ELSE IF bad[Head(s)]
         THEN (IF inRun THEN <<>> ELSE <<"-">>) \o sub_runs(Tail(s), bad, TRUE)
         ELSE <<Head(s)>> \o sub_runs(Tail(s), bad, FALSE)

\* a slugify that returns whatever is left, even nothing
slugify_no_fallback(value) ==
    LET v0 == IF value.has THEN value.v ELSE <<>>
        lowered == [i \in 1..Len(v0) |-> Lower(v0[i])]
        stripped == strip(lowered, Whitespace)
        dashed == [i \in 1..Len(stripped) |->
                      IF stripped[i] = " " THEN "-" ELSE stripped[i]]
        chars == Range(dashed) \cup {"-"}
        cleaned == sub_runs(dashed, [c \in chars |-> c \notin SlugChars], FALSE)
        collapsed == sub_runs(cleaned, [c \in chars |-> c = "-"], FALSE)
    IN  strip(collapsed, {"-"})

\* slugify
slugify(value) ==
    LET v0 == IF value.has THEN value.v ELSE <<>>
        lowered == [i \in 1..Len(v0) |-> Lower(v0[i])]
        stripped == strip(lowered, Whitespace)
        dashed == [i \in 1..Len(stripped) |->
                      IF stripped[i] = " " THEN "-" ELSE stripped[i]]
        chars == Range(dashed) \cup {"-"}
        cleaned == sub_runs(dashed, [c \in chars |-> c \notin SlugChars], FALSE)
        collapsed == sub_runs(cleaned, [c \in chars |-> c = "-"], FALSE)
        trimmed == strip(collapsed, {"-"})
    IN  IF trimmed = <<>> THEN <<"p", "r", "o", "d", "u", "c", "t">> ELSE trimmed

\* An image reference is a remote URL (of which the path is kept, as
\* text), a file below a directory, a path relative to the output root,
\* or None.
Url(path) == [is |-> "url", at |-> path]

NoImage == [is |-> "none"]

LocalFile(root, name) == [is |-> "file", root |-> root, at |-> name]

\* truthiness of an Optional[str] that holds an image reference
TruthyImage(ref) == ref.is # "none" /\ (ref.is = "url" => ref.at # <<>>)

IsRemote(ref) == ref.is = "url"

\* ---------------------------------------------------------------------
\* scraper/transform.py raw_to_shopify
\* ---------------------------------------------------------------------
\* a transform that always sells at the list price
effective_price_ignores_sale(r) == IF TruthyNum(r.price) THEN r.price.v ELSE 0

\* line 13: raw.sale_price if raw.sale_price else raw.price or 0.0
effective_price(r) ==
    IF TruthyNum(r.sale_price) THEN r.sale_price.v
    ELSE IF TruthyNum(r.price) THEN r.price.v ELSE 0

\* line 14: raw.price if raw.sale_price else raw.sale_price
compare_at(r) == IF TruthyNum(r.sale_price) THEN r.price ELSE r.sale_price

\* ShopifyVariant with its defaults (models.py)
ShopifyVariant(sku, price, compare_at_price) ==
    [sku |-> sku, price |-> price, compare_at_price |-> compare_at_price,
     requires_shipping |-> TRUE, grams |-> 0, inventory_quantity |-> 0,
     inventory_policy |-> "continue", fulfillment_service |-> "manual",
     option1_name |-> "Title", option1_value |-> "Default"]

\* an image that is always given position 1
ShopifyImage_first(src, position, alt_text) ==
    [src |-> src, position |-> 1, alt_text |-> alt_text]

\* ShopifyImage (models.py)
ShopifyImage(src, position, alt_text) ==
    [src |-> src, position |-> position, alt_text |-> alt_text]

raw_to_shopify(r) ==
    LET handle == slugify(OrElse(r.title, OrElse(r.sku, Str(r.source_url))))
        variant == ShopifyVariant(IF TruthyStr(r.sku) THEN r.sku.v ELSE handle,
                                  effective_price(r), compare_at(r))
        main == IF TruthyImage(r.main_image)
                THEN <<ShopifyImage(r.main_image, 1, r.title)>> ELSE <<>>
        gallery == [i \in 1..Len(r.gallery_images) |->
                       ShopifyImage(r.gallery_images[i], i + 1, r.title)]
        alt == IF TruthyStr(r.title) THEN r.title.v ELSE handle
    IN  [handle |-> handle,
         title |-> IF TruthyStr(r.title) THEN r.title.v
                   ELSE <<"U", "n", "t", "i", "t", "l", "e", "d", " ",
                          "P", "r", "o", "d", "u", "c", "t">>,
         body_html |-> [html |-> IF r.description_html = None THEN ""
                                 ELSE r.description_html,
                        imgs |-> [i \in 1..Len(r.detail_images) |->
                                     [src |-> r.detail_images[i], alt |-> alt]]],
         vendor |-> IF r.vendor # "" THEN r.vendor ELSE "Unknown",
         product_type |-> IF r.product_type # "" THEN r.product_type ELSE "General",
         tags |-> r.tags,
         published |-> TRUE,
         variants |-> <<variant>>,
         images |-> main \o gallery]

\* ---------------------------------------------------------------------
\* scraper/models.py ShopifyRecord.to_rows
\* ---------------------------------------------------------------------
DigitChars == <<"0", "1", "2", "3", "4", "5", "6", "7", "8", "9">>

RECURSIVE Digits(_)
Digits(n) ==
    IF n < 10 THEN <<DigitChars[n + 1]>>
    ELSE Digits(n \div 10) \o <<DigitChars[(n % 10) + 1]>>

\* f"{x:.2f}" for an amount held in hundredths
Format2f(x) ==
    LET a == IF x < 0 THEN 0 - x ELSE x
    IN  (IF x < 0 THEN <<"-">> ELSE <<>>)
        \o Digits(a \div 100) \o <<".">>
        \o <<DigitChars[((a % 100) \div 10) + 1], DigitChars[(a % 10) + 1]>>

\* ",".join(tags)
RECURSIVE Join(_)
Join(tags) ==
    IF tags = <<>> THEN <<>>
    ELSE IF Len(tags) = 1 THEN Head(tags)
    ELSE Head(tags) \o <<",">> \o Join(Tail(tags))

empty_variant_row ==
    [c \in {"Option1 Name", "Option1 Value", "Variant SKU", "Variant Price",
            "Variant Compare At Price", "Variant Inventory Qty",
            "Variant Inventory Policy", "Variant Fulfillment Service",
            "Variant Requires Shipping", "Variant Grams"} |->
        CASE c = "Option1 Name" -> "Title"
          [] c = "Option1 Value" -> "Default"
          [] c = "Variant SKU" -> <<>>
          [] c = "Variant Price" -> <<>>
          [] c = "Variant Compare At Price" -> <<>>
          [] c = "Variant Inventory Qty" -> 0
          [] c = "Variant Inventory Policy" -> "continue"
          [] c = "Variant Fulfillment Service" -> "manual"
          [] c = "Variant Requires Shipping" -> "TRUE"
          [] c = "Variant Grams" -> 0]

empty_image_row ==
    [c \in {"Image Src", "Image Position", "Image Alt Text"} |->
        CASE c = "Image Src" -> ""
          [] c = "Image Position" -> ""
          [] c = "Image Alt Text" -> <<>>]

Min(a, b) == IF a < b THEN a ELSE b

\* _image_row: variant_index is 0-based
image_row(images, variant_index) ==
    IF images = <<>> THEN empty_image_row
    ELSE LET image == images[Min(variant_index, Len(images) - 1) + 1]
         IN  [c \in {"Image Src", "Image Position", "Image Alt Text"} |->
                 CASE c = "Image Src" -> image.src
                   [] c = "Image Position" -> image.position
                   [] c = "Image Alt Text" ->
                        IF TruthyStr(image.alt_text) THEN image.alt_text.v ELSE <<>>]

variant_row(variant) ==
    [c \in DOMAIN empty_variant_row |->
        CASE c = "Option1 Name" -> variant.option1_name
          [] c = "Option1 Value" -> variant.option1_value
          [] c = "Variant SKU" -> variant.sku
          [] c = "Variant Price" -> Format2f(variant.price)
          [] c = "Variant Compare At Price" ->
               IF TruthyNum(variant.compare_at_price)
               THEN Format2f(variant.compare_at_price.v) ELSE <<>>
          [] c = "Variant Inventory Qty" -> variant.inventory_quantity
          [] c = "Variant Inventory Policy" -> variant.inventory_policy
          [] c = "Variant Fulfillment Service" -> variant.fulfillment_service
          [] c = "Variant Requires Shipping" ->
               IF variant.requires_shipping THEN "TRUE" ELSE "FALSE"
          [] c = "Variant Grams" -> variant.grams]

base_row(rec) ==
    [c \in {"Handle", "Title", "Body (HTML)", "Vendor", "Product Category",
            "Type", "Tags", "Published"} |->
        CASE c = "Handle" -> rec.handle
          [] c = "Title" -> rec.title
          [] c = "Body (HTML)" -> rec.body_html
          [] c = "Vendor" -> rec.vendor
          [] c = "Product Category" -> ""
          [] c = "Type" -> rec.product_type
          [] c = "Tags" -> Join(rec.tags)
          [] c = "Published" -> IF rec.published THEN "TRUE" ELSE "FALSE"]

\* an expansion without the placeholder row
to_rows_no_placeholder(rec) ==
    [i \in 1..Len(rec.variants) |->
        base_row(rec) @@ variant_row(rec.variants[i])
            @@ image_row(rec.images, i - 1)]

\* ShopifyRecord.to_rows
to_rows(rec) ==
    IF rec.variants = <<>>
    THEN <<base_row(rec) @@ empty_variant_row @@ empty_image_row>>
    ELSE [i \in 1..Len(rec.variants) |->
             base_row(rec) @@ variant_row(rec.variants[i])
                 @@ image_row(rec.images, i - 1)]

\* ---------------------------------------------------------------------
\* raw_to_shopify and to_rows applied to bounded RawProductData
\* ---------------------------------------------------------------------
Titles ==
    {NoneStr, Str(<<>>), Str(<<"!", "!">>),
     Str(<<"C", "a", "f", "e", "2", "4", " ", "P", "r", "o", "d", "u", "c", "t">>)}

Skus == {NoneStr, Str(<<"S", "-", "1">>)}

\* price and sale_price, in hundredths
Amounts == {-100, 0, 250, 1999}

Prices == {NoneNum} \cup {Num(n) : n \in Amounts}

\* lists of up to MaxListed different images out of two
ImageLists(a, b) ==
    {l \in SeqsUpTo({a, b}, MaxListed) :
        \A i, j \in 1..Len(l) : i # j => l[i] # l[j]}

RawInputs ==
    [source_url : {<<"h", "t", "t", "p", ":", "/", "/", "x", ".", "k", "r", "/", "p", "1">>},
     title : Titles, sku : Skus, vendor : {""}, product_type : {"", "Shoes"},
     tags : {<<>>, <<<<"a">>, <<"x">>>>},
     description_html : {None, "<div id=\"prdDetail\">d</div>"},
     price : Prices, sale_price : Prices,
     main_image : {NoImage, Url(<<"/", "m", ".", "j", "p", "g">>)},
     gallery_images : ImageLists(Url(<<"/", "g", ".", "j", "p", "g">>),
                                 Url(<<"/", "h", ".", "j", "p", "g">>)),
     detail_images : ImageLists(Url(<<"/", "d", ".", "j", "p", "g">>),
                                Url(<<"/", "e", ".", "j", "p", "g">>))]

\* RawProductData(source_url=url): every other field at its default
EmptyRaw ==
    [source_url |-> <<"h", "t", "t", "p", ":", "/", "/", "x", ".", "k", "r", "/", "p", "1">>,
     title |-> NoneStr, sku |-> NoneStr, vendor |-> "", product_type |-> "",
     tags |-> <<>>, description_html |-> None, price |-> NoneNum,
     sale_price |-> NoneNum, main_image |-> NoImage, gallery_images |-> <<>>,
     detail_images |-> <<>>]

NoRecord == raw_to_shopify(EmptyRaw)

TransformIdle ==
    /\ raw = EmptyRaw
    /\ shop = NoRecord
    /\ rows = <<>>
    /\ tpc = "idle"

TransformInit ==
    /\ raw \in RawInputs
    /\ shop = NoRecord
    /\ rows = <<>>
    /\ tpc = "raw"

\* raw_to_shopify(raw)
Transform ==
    /\ tpc = "raw"
    /\ shop' = raw_to_shopify(raw)
    /\ tpc' = "record"
    /\ UNCHANGED <<raw, rows>>
    /\ UNCHANGED notXf

\* record.to_rows()
ToRows ==
    /\ tpc = "record"
    /\ rows' = to_rows(shop)
    /\ tpc' = "rows"
    /\ UNCHANGED <<raw, shop>>
    /\ UNCHANGED notXf

\* ---------------------------------------------------------------------
\* scraper/pipeline.py _export_csv
\* ---------------------------------------------------------------------
\* the keys of a row in the order the dict literals of to_rows,
\* _empty_variant_row and _empty_image_row insert them
ROW_KEYS ==
    <<"Handle", "Title", "Body (HTML)", "Vendor", "Product Category", "Type",
      "Tags", "Published", "Option1 Name", "Option1 Value", "Variant SKU",
      "Variant Price", "Variant Compare At Price", "Variant Inventory Qty",
      "Variant Inventory Policy", "Variant Fulfillment Service",
      "Variant Requires Shipping", "Variant Grams", "Image Src",
      "Image Position", "Image Alt Text">>

\* rows.extend(record.to_rows()) for every record
RECURSIVE extend_rows(_)
extend_rows(expanded) ==
    IF expanded = <<>> THEN <<>>
    ELSE Head(expanded) \o extend_rows(Tail(expanded))

\* pd.DataFrame(rows): the columns are the keys of the rows, in order of
\* first appearance
DataFrameColumns(rs) ==
    LET keys == UNION {DOMAIN rs[i] : i \in 1..Len(rs)}
    IN  SelectSeq(ROW_KEYS, LAMBDA c : c \in keys)

NoCsv == [written |-> FALSE, header |-> <<>>, data |-> <<>>]

\* an export that leaves no file behind when there is nothing to write
export_csv_skip_empty(expanded) ==
    LET rs == extend_rows(expanded)
    IN  IF rs = <<>> THEN NoCsv
        ELSE [written |-> TRUE, header |-> DataFrameColumns(rs), data |-> rs]

\* _export_csv, given the rows of each record: the file it writes
export_csv(expanded) ==
    LET rs == extend_rows(expanded)
    IN  IF rs = <<>>
        THEN [written |-> TRUE, header |-> <<"Handle", "Title">>, data |-> <<>>]
        ELSE [written |-> TRUE, header |-> DataFrameColumns(rs), data |-> rs]

\* ShopifyRecords with zero to MaxVariants variants
VariantInputs ==
    {ShopifyVariant(<<"S", "-", "1">>, 250, NoneNum),
     ShopifyVariant(<<"S", "-", "2">>, 1999, Num(2500))}

RecordInputs ==
    [handle : {<<"p", "1">>}, title : {<<"P", "1">>},
     body_html : {[html |-> "", imgs |-> <<>>]},
     vendor : {"Unknown"}, product_type : {"General"}, tags : {<<>>},
     published : {TRUE},
     variants : SeqsUpTo(VariantInputs, MaxVariants),
     images : {<<>>, <<ShopifyImage("m.jpg", 1, Str(<<"P", "1">>)),
                       ShopifyImage("g.jpg", 2, Str(<<"P", "1">>))>>}]

ExportIdle ==
    /\ expRecords = <<>>
    /\ rowsOf = <<>>
    /\ csvOut = NoCsv
    /\ epc = "idle"

ExportInit ==
    /\ expRecords \in SeqsUpTo(RecordInputs, MaxRecords)
    /\ rowsOf = <<>>
    /\ csvOut = NoCsv
    /\ epc = "records"

\* _export_csv(records, destination)
WriteCsv ==
    /\ epc = "records"
    /\ rowsOf' = [i \in 1..Len(expRecords) |-> to_rows(expRecords[i])]
    /\ csvOut' = export_csv(rowsOf')
    /\ epc' = "written"
    /\ UNCHANGED expRecords
    /\ UNCHANGED notExport

\* ---------------------------------------------------------------------
\* scraper/pipeline.py: archiving and summary, for every state of the two
\* directories and every archive name
\* ---------------------------------------------------------------------
SettingsInputs ==
    {PipelineSettings(z, i, sc) :
        z \in BOOLEAN,
        i \in {Path("images", ".zip"), Path("images", ""), Path("images", ".tar")},
        sc \in {Path("screenshots", ".zip"), Path("shots", ".bak")}}

DirStates == {"missing", "empty", "nonempty"}

NoResult == [images_zip |-> NoPath, screenshots_zip |-> NoPath,
             summary |-> write_summary(<<>>, <<>>, NoPath, NoPath)]

ArchiveIdle ==
    /\ arcSettings = PipelineSettings(TRUE, Path("images", ".zip"),
                                      Path("screenshots", ".zip"))
    /\ dirImages = "missing"
    /\ dirScreenshots = "missing"
    /\ arcDisk = {}
    /\ zipReturned = NoPath
    /\ arcResult = NoResult
    /\ apc = "idle"

ArchiveInit ==
    /\ arcSettings \in SettingsInputs
    /\ dirImages \in DirStates
    /\ dirScreenshots \in DirStates
    /\ arcDisk = {}
    /\ zipReturned = NoPath
    /\ arcResult = NoResult
    /\ apc = "start"

\* _zip_directory(output_dir/images, output_dir/zip_images_name)
ZipDirectory ==
    /\ apc = "start"
    /\ LET zipped == zip_directory(dirImages, arcSettings.zip_images_name)
       IN  /\ zipReturned' = zipped.path
           /\ arcDisk' = arcDisk \cup zipped.created
    /\ apc' = "zipped"
    /\ UNCHANGED <<arcSettings, dirImages, dirScreenshots, arcResult>>
    /\ UNCHANGED notArchive

\* lines 78-107 of run_pipeline, after a run without products; the
\* ImageManager made the images directory when it was constructed
ArchiveOutputs ==
    /\ apc = "start"
    /\ dirImages # "missing"
    /\ LET archived == archive_outputs(arcSettings, dirImages, dirScreenshots)
       IN  /\ arcDisk' = arcDisk \cup archived.created
           /\ arcResult' = [images_zip |-> archived.images_zip,
                            screenshots_zip |-> archived.screenshots_zip,
                            summary |-> write_summary(<<>>, <<>>,
                                                      archived.images_zip,
                                                      archived.screenshots_zip)]
    /\ apc' = "returned"
    /\ UNCHANGED <<arcSettings, dirImages, dirScreenshots, zipReturned>>
    /\ UNCHANGED notArchive

\* ---------------------------------------------------------------------
\* scraper/images.py ImageManager, scraper/pipeline.py _download_and_prepare
\* ---------------------------------------------------------------------
\* what the network serves for an image URL and what OpenCV and Pillow
\* find in it: net is "ok" or "fail"; decodes tells whether the bytes are
\* an image; score (in hundredths) and y are the best template match
Served(net, decodes, width, height, score, y) ==
    [net |-> net, decodes |-> decodes, width |-> width, height |-> height,
     score |-> score, y |-> y]

\* the header template image
template_shape == [height |-> 20, width |-> 100]

buffer_pixels == 10

max_width == 1200

\* max_val < 0.8, in hundredths
match_threshold == 80

\* str.rfind: 0 when c does not occur
RECURSIVE rfind(_, _)
rfind(s, c) ==
    IF s = <<>> THEN 0
    ELSE IF s[Len(s)] = c THEN Len(s)
    ELSE rfind(SubSeq(s, 1, Len(s) - 1), c)

\* _infer_extension
infer_extension(url) ==
    LET path == url.at
    IN  IF "." \in Range(path)
        THEN Str(SubSeq(path, rfind(path, "."), Len(path)))
        ELSE NoneStr

\* f"{prefix}_{kind}_{index}{suffix}", and the _cropped twin of it
Filename(prefix, kind, index, suffix) ==
    [prefix |-> prefix, kind |-> kind, index |-> index, suffix |-> suffix,
     cropped |-> FALSE]

FileContent(files, path) == (CHOOSE f \in files : f.path = path).content

WriteFile(files, path, content) ==
    {f \in files : f.path # path} \cup {[path |-> path, content |-> content]}

\* a download that stores every image as .jpg
download_single_always_jpg(url, output_dir, prefix, kind, index, served) ==
    IF url.at = <<>> THEN [raised |-> FALSE, path |-> NoImage]
    ELSE IF served.net # "ok" THEN [raised |-> TRUE, path |-> NoImage]
    ELSE [raised |-> FALSE,
          path |-> LocalFile(output_dir,
                             Filename(prefix, kind, index, <<".", "j", "p", "g">>))]

\* _download_single: raises when the request fails and when the file
\* cannot be opened (a suffix with a "/" names a directory that does not
\* exist)
download_single(url, output_dir, prefix, kind, index, served) ==
    IF url.at = <<>> THEN [raised |-> FALSE, path |-> NoImage]
    ELSE IF served.net # "ok" THEN [raised |-> TRUE, path |-> NoImage]
    ELSE LET suffix == OrElse(infer_extension(url), Str(<<".", "j", "p", "g">>)).v
         IN  IF "/" \in Range(suffix)
             THEN [raised |-> TRUE, path |-> NoImage]
             ELSE [raised |-> FALSE,
                   path |-> LocalFile(output_dir,
                                      Filename(prefix, kind, index, suffix))]

ImageDownloadResult(path, source_url, kind) ==
    [path |-> path, source_url |-> source_url, kind |-> kind]

\* the for loop of download_images, from 1-based position pos on
RECURSIVE download_loop(_, _, _, _, _, _, _)
download_loop(urls, output_dir, prefix, kind, world, pos, acc) ==
    IF pos > Len(urls) THEN acc
    ELSE LET d == download_single(urls[pos], output_dir, prefix, kind, pos,
                                  world[pos])
         IN  download_loop(urls, output_dir, prefix, kind, world, pos + 1,
                 IF ~d.raised /\ d.path # NoImage
                 THEN [results |-> Append(acc.results,
                                          ImageDownloadResult(d.path, urls[pos], kind)),
                       files |-> WriteFile(acc.files, d.path, world[pos])]
                 ELSE acc)

\* ImageManager.download_images: the results and the files afterwards
download_images(urls, output_dir, prefix, kind, world, files) ==
    download_loop(urls, output_dir, prefix, kind, world, 1,
                  [results |-> <<>>, files |-> files])

NoCrop == [raised |-> FALSE, path |-> NoImage, content |-> <<>>]

\* a crop that accepts the best match whatever its score
crop_detail_image_any_score(image_path, template, content) ==
    IF template = "missing" THEN NoCrop
    ELSE IF ~content.decodes THEN NoCrop
    ELSE IF content.height < template_shape.height
            \/ content.width < template_shape.width
    THEN [raised |-> TRUE, path |-> NoImage, content |-> <<>>]
    ELSE LET crop_start == content.y + template_shape.height + buffer_pixels
         IN  IF crop_start >= content.height THEN NoCrop
             ELSE [raised |-> FALSE,
                   path |-> [image_path EXCEPT !.at.cropped = TRUE],
                   content |-> [content EXCEPT !.height = @ - crop_start,
                                               !.score = 0, !.y = 0]]

\* crop_detail_image on a file with the given content; cv2.matchTemplate
\* raises when the image is smaller than the template
crop_detail_image(image_path, template, content) ==
    IF template = "missing" THEN NoCrop
    ELSE IF ~content.decodes THEN NoCrop
    ELSE IF content.height < template_shape.height
            \/ content.width < template_shape.width
    THEN [raised |-> TRUE, path |-> NoImage, content |-> <<>>]
    ELSE IF content.score < match_threshold THEN NoCrop
    ELSE LET crop_start == content.y + template_shape.height + buffer_pixels
         IN  IF crop_start >= content.height THEN NoCrop
             ELSE [raised |-> FALSE,
                   path |-> [image_path EXCEPT !.at.cropped = TRUE],
                   content |-> [content EXCEPT !.height = @ - crop_start,
                                               !.score = 0, !.y = 0]]

\* optimize_image: Image.open raises on bytes that are not an image
optimize_image(content) ==
    IF ~content.decodes THEN [raised |-> TRUE, content |-> content]
    ELSE IF content.width <= max_width THEN [raised |-> FALSE, content |-> content]
    ELSE [raised |-> FALSE,
          content |-> [content EXCEPT
                          !.width = max_width,
                          !.height = (content.height * max_width) \div content.width]]

\* _relative
relative(path, root) ==
    IF path.root = root THEN [is |-> "rel", at |-> path.at] ELSE path

\* an ImageManager call on a path, for the record of calls
ImageCall(method, path) == [method |-> method, path |-> path]

\* the for loop of _download_and_prepare, from download i on: an exception
\* of crop_detail_image or optimize_image ends it; calls: the ImageManager
\* calls made so far, in order
RECURSIVE prepare_loop(_, _, _, _, _, _)
prepare_loop(downloads, kind, output_root, template, i, acc) ==
    IF i > Len(downloads) THEN acc
    ELSE LET download == downloads[i]
             content == FileContent(acc.files, download.path)
             crops == kind = "detail" /\ template # "unset"
             cropped == IF crops
                        THEN crop_detail_image(download.path, template, content)
                        ELSE NoCrop
             calls1 == IF crops
                       THEN Append(acc.calls, ImageCall("crop_detail_image",
                                                        download.path))
                       ELSE acc.calls
             target_path == IF cropped.path # NoImage THEN cropped.path
                            ELSE download.path
             files1 == IF cropped.path # NoImage
                       THEN WriteFile(acc.files, cropped.path, cropped.content)
                       ELSE acc.files
             optimized == optimize_image(FileContent(files1, target_path))
             calls2 == Append(calls1, ImageCall("optimize_image", target_path))
         IN  IF cropped.raised
             THEN [acc EXCEPT !.raised = TRUE, !.calls = calls1]
             ELSE IF optimized.raised
             THEN [raised |-> TRUE, paths |-> acc.paths, files |-> files1,
                   calls |-> calls2]
             ELSE prepare_loop(downloads, kind, output_root, template, i + 1,
                      [raised |-> FALSE,
                       paths |-> Append(acc.paths, relative(target_path, output_root)),
                       files |-> WriteFile(files1, target_path, optimized.content),
                       calls |-> calls2])

\* _download_and_prepare: the image manager stores below output_root
download_and_prepare(urls, prefix, kind, output_root, template, world, files) ==
    LET downloaded == download_images(urls, output_root, prefix, kind, world, files)
    IN  [downloads |-> downloaded.results]
        @@ prepare_loop(downloaded.results, kind, output_root, template, 1,
                        [raised |-> FALSE, paths |-> <<>>,
                         files |-> downloaded.files,
                         calls |-> [k \in 1..Len(downloaded.results) |->
                                      ImageCall("download_single",
                                                downloaded.results[k].path)]])

\* Bounded inputs: three URLs (with an extension, without one, and with a
\* dot in a directory name) and what can be served for them.
ImageUrls ==
    {Url(<<"/", "a", ".", "p", "n", "g">>), Url(<<"/", "b">>),
     Url(<<"/", "v", ".", "2", "/", "c">>)}

Unreachable == Served("fail", FALSE, 0, 0, 0, 0)

ServedInputs ==
    {Unreachable,
     Served("ok", FALSE, 0, 0, 0, 0),        \* not an image
     Served("ok", TRUE, 800, 10, 0, 0),      \* smaller than the template
     Served("ok", TRUE, 800, 100, 79, 0),    \* no confident match
     Served("ok", TRUE, 800, 100, 80, 0),    \* match, rows left below it
     Served("ok", TRUE, 800, 100, 95, 70),   \* match, nothing left below it
     Served("ok", TRUE, 1600, 100, 95, 0)}   \* match, wider than max_width

ImagePrefix == <<"p", "1">>

NoPrepared == [downloads |-> <<>>, raised |-> FALSE, paths |-> <<>>, files |-> {},
               calls |-> <<>>]

PrepareIdle ==
    /\ imgUrls = <<>>
    /\ imgWorld = <<>>
    /\ imgKind = "main"
    /\ imgTemplate = "unset"
    /\ imgDownloads = <<>>
    /\ imgFiles = {}
    /\ imgPrepared = NoPrepared
    /\ ppc = "idle"

PrepareInit ==
    /\ \E n \in 0..MaxImages :
         /\ imgUrls \in [1..n -> ImageUrls]
         /\ imgWorld \in [1..n -> ServedInputs]
    /\ imgKind \in {"main", "gallery", "detail"}
    /\ imgTemplate \in {"unset", "missing", "present"}
    /\ imgDownloads = <<>>
    /\ imgFiles = {}
    /\ imgPrepared = NoPrepared
    /\ ppc = "start"

\* image_manager.download_images(urls, prefix, kind)
DownloadImages ==
    /\ ppc = "start"
    /\ LET downloaded == download_images(imgUrls, "out", ImagePrefix, imgKind,
                                         imgWorld, imgFiles)
       IN  /\ imgDownloads' = downloaded.results
           /\ imgFiles' = downloaded.files
    /\ ppc' = "downloaded"
    /\ UNCHANGED <<imgUrls, imgWorld, imgKind, imgTemplate, imgPrepared>>
    /\ UNCHANGED notPrep

\* _download_and_prepare(image_manager, urls, prefix, kind, output_root,
\* detail_template_name)
DownloadAndPrepare ==
    /\ ppc = "start"
    /\ imgPrepared' = download_and_prepare(imgUrls, ImagePrefix, imgKind, "out",
                                           imgTemplate, imgWorld, imgFiles)
    /\ imgDownloads' = imgPrepared'.downloads
    /\ imgFiles' = imgPrepared'.files
    /\ ppc' = "prepared"
    /\ UNCHANGED <<imgUrls, imgWorld, imgKind, imgTemplate>>
    /\ UNCHANGED notPrep

\* ---------------------------------------------------------------------
\* scraper/pipeline.py _process_single, lines 132-167, inside the loop of
\* run_pipeline, for two product pages
\* ---------------------------------------------------------------------
\* prefix = slugify(raw.title or raw.sku or raw.source_url)
image_prefix(r) == slugify(OrElse(r.title, OrElse(r.sku, Str(r.source_url))))

\* The pages: a title, and up to one main, MaxGallery gallery and one
\* detail image, each reachable or not.
Downloaded == Served("ok", TRUE, 800, 100, 95, 0)

PageTitles ==
    {NoneStr,
     Str(<<"C", "a", "f", "e", "2", "4", " ", "P", "r", "o", "d", "u", "c", "t">>),
     Str(<<"c", "a", "f", "e", "2", "4", "-", "p", "r", "o", "d", "u", "c", "t">>)}

ProductUrls ==
    <<<<"h", "t", "t", "p", ":", "/", "/", "x", ".", "k", "r", "/", "p", "1">>,
      <<"h", "t", "t", "p", ":", "/", "/", "x", ".", "k", "r", "/", "p", "2">>>>

Page(url, title, main, gallery, detail) ==
    [raw |-> [source_url |-> url, title |-> title, sku |-> NoneStr,
              vendor |-> "", product_type |-> "", tags |-> <<>>,
              description_html |-> "", price |-> Num(250), sale_price |-> NoneNum,
              main_image |-> main.image,
              gallery_images |-> [i \in 1..Len(gallery) |-> gallery[i].image],
              detail_images |-> [i \in 1..Len(detail) |-> detail[i].image]],
     served |-> [main |-> main.served,
                 gallery |-> [i \in 1..Len(gallery) |-> gallery[i].served],
                 detail |-> [i \in 1..Len(detail) |-> detail[i].served]]]

ImageCases(url) ==
    {[image |-> url, served |-> w] : w \in {Unreachable, Downloaded}}

PageInputs(url) ==
    {Page(url, t, m, g, d) :
        t \in PageTitles,
        m \in {[image |-> NoImage, served |-> Unreachable]}
              \cup ImageCases(Url(<<"/", "m", ".", "p", "n", "g">>)),
        g \in SeqsUpTo(ImageCases(Url(<<"/", "g">>)), MaxGallery),
        d \in SeqsUpTo(ImageCases(Url(<<"/", "d", ".", "j", "p", "g">>)), 1)}

NoRaw == Page(<<>>, NoneStr, [image |-> NoImage, served |-> Unreachable],
              <<>>, <<>>).raw

ItemIdle ==
    /\ itemPages = <<>>
    /\ itemIdx = 0
    /\ itemStage = "idle"
    /\ itemRaw = NoRaw
    /\ itemRecords = <<>>
    /\ itemFailures = <<>>
    /\ itemFiles = {}
    /\ itemWrites = <<>>

ItemInit ==
    /\ itemPages \in [1..2 -> UNION {PageInputs(ProductUrls[i]) : i \in 1..2}]
    /\ \A i \in 1..2 : itemPages[i].raw.source_url = ProductUrls[i]
    /\ itemIdx = 0
    /\ itemStage = "main"
    /\ itemRaw = itemPages[1].raw
    /\ itemRecords = <<>>
    /\ itemFailures = <<>>
    /\ itemFiles = {}
    /\ itemWrites = <<>>

\* the loop of run_pipeline goes on to the next product: client.fetch and
\* parser.parse give its page
NextProduct ==
    /\ itemIdx' = itemIdx + 1
    /\ IF itemIdx + 1 < Len(itemPages)
       THEN /\ itemStage' = "main"
            /\ itemRaw' = itemPages[itemIdx + 2].raw
       ELSE /\ itemStage' = "done"
            /\ itemRaw' = NoRaw

\* the files that download_images wrote for the product, appended to
\* the record of writes
Written(writes, product, downloads) ==
    writes \o [k \in 1..Len(downloads) |->
                 [product |-> product, path |-> downloads[k].path]]

\* `except Exception` of run_pipeline, lines 69-73
ItemFailed ==
    /\ itemFailures' = Append(itemFailures, itemRaw.source_url)
    /\ NextProduct
    /\ UNCHANGED itemRecords

\* _process_single, lines 134-144: the main image
PrepareMain ==
    /\ itemStage = "main"
    /\ IF TruthyImage(itemRaw.main_image)
       THEN LET main_paths ==
                    download_and_prepare(<<itemRaw.main_image>>,
                                         image_prefix(itemRaw), "main", "out",
                                         "present",
                                         <<itemPages[itemIdx + 1].served.main>>,
                                         itemFiles)
            IN  /\ itemFiles' = main_paths.files
                /\ itemWrites' = Written(itemWrites, itemRaw.source_url,
                                          main_paths.downloads)
                /\ IF main_paths.raised THEN ItemFailed
                   ELSE /\ itemRaw' = IF main_paths.paths # <<>>
                                      THEN [itemRaw EXCEPT
                                               !.main_image = main_paths.paths[1]]
                                      ELSE itemRaw
                        /\ itemStage' = "gallery"
                        /\ UNCHANGED <<itemIdx, itemRecords, itemFailures>>
       ELSE /\ itemStage' = "gallery"
            /\ UNCHANGED <<itemIdx, itemRaw, itemRecords, itemFailures, itemFiles,
                           itemWrites>>
    /\ UNCHANGED itemPages
    /\ UNCHANGED notItem

\* _process_single, lines 146-154: the gallery images
PrepareGallery ==
    /\ itemStage = "gallery"
    /\ IF itemRaw.gallery_images # <<>>
       THEN LET prepared ==
                    download_and_prepare(itemRaw.gallery_images,
                                         image_prefix(itemRaw), "gallery", "out",
                                         "present",
                                         itemPages[itemIdx + 1].served.gallery,
                                         itemFiles)
            IN  /\ itemFiles' = prepared.files
                /\ itemWrites' = Written(itemWrites, itemRaw.source_url,
                                          prepared.downloads)
                /\ IF prepared.raised THEN ItemFailed
                   ELSE /\ itemRaw' = [itemRaw EXCEPT
                                          !.gallery_images = prepared.paths]
                        /\ itemStage' = "detail"
                        /\ UNCHANGED <<itemIdx, itemRecords, itemFailures>>
       ELSE /\ itemStage' = "detail"
            /\ UNCHANGED <<itemIdx, itemRaw, itemRecords, itemFailures, itemFiles,
                           itemWrites>>
    /\ UNCHANGED itemPages
    /\ UNCHANGED notItem

\* _process_single, lines 156-164: the detail images
PrepareDetail ==
    /\ itemStage = "detail"
    /\ IF itemRaw.detail_images # <<>>
       THEN LET prepared ==
                    download_and_prepare(itemRaw.detail_images,
                                         image_prefix(itemRaw), "detail", "out",
                                         "present",
                                         itemPages[itemIdx + 1].served.detail,
                                         itemFiles)
            IN  /\ itemFiles' = prepared.files
                /\ itemWrites' = Written(itemWrites, itemRaw.source_url,
                                          prepared.downloads)
                /\ IF prepared.raised THEN ItemFailed
                   ELSE /\ itemRaw' = [itemRaw EXCEPT
                                          !.detail_images = prepared.paths]
                        /\ itemStage' = "transform"
                        /\ UNCHANGED <<itemIdx, itemRecords, itemFailures>>
       ELSE /\ itemStage' = "transform"
            /\ UNCHANGED <<itemIdx, itemRaw, itemRecords, itemFailures, itemFiles,
                           itemWrites>>
    /\ UNCHANGED itemPages
    /\ UNCHANGED notItem

\* _process_single, lines 166-167, and records.append of run_pipeline
TransformItem ==
    /\ itemStage = "transform"
    /\ itemRecords' = Append(itemRecords,
                             [url |-> itemRaw.source_url,
                              record |-> raw_to_shopify(itemRaw)])
    /\ NextProduct
    /\ UNCHANGED <<itemPages, itemFailures, itemFiles, itemWrites>>
    /\ UNCHANGED notItem

\* ---------------------------------------------------------------------
\* scraper/utils.py slugify, applied to None and to every short string
\* over letters, a digit, blanks, a dash, punctuation and a non-ASCII
\* letter, and to the string of tests/test_utils.py
\* ---------------------------------------------------------------------
SlugAlphabet == {"a", "B", "1", " ", "\t", "-", "!", "É"}

Cafe24Product ==
    <<"C", "a", "f", "e", "2", "4", " ", "P", "r", "o", "d", "u", "c", "t">>

SlugInputs ==
    {NoneStr, Str(Cafe24Product)}
        \cup {Str(t) : t \in SeqsUpTo(SlugAlphabet, MaxSlugLen)}

SlugIdle ==
    /\ slugIn = NoneStr
    /\ slugOut = <<>>
    /\ spc = "idle"

SlugInit ==
    /\ slugIn \in SlugInputs
    /\ slugOut = <<>>
    /\ spc = "arg"

\* slugify(value)
Slugify ==
    /\ spc = "arg"
    /\ slugOut' = slugify(slugIn)
    /\ spc' = "done"
    /\ UNCHANGED slugIn
    /\ UNCHANGED notSlug

\* ---------------------------------------------------------------------
\* api/storage.py RunStore called directly, as tests/test_storage.py
\* does: create_run for a new id, then the mark_* methods in any order
\* ---------------------------------------------------------------------
StoredIds == 1..MaxStoredRuns

\* (input_filename, source) pairs handed to create_run
CreateInputs ==
    {[input_filename |-> "input.csv", source |-> "upload"],
     [input_filename |-> "foo.csv", source |-> "url"]}

\* csv_path arguments of mark_succeeded: None or a path
CsvPaths == {NoPath, Path("shopify", ".csv"), Path("out", ".csv")}

NoCall == [method |-> "", run |-> 0, input_filename |-> "", source |-> "",
           csv_path |-> NoPath]

StoreIdle ==
    /\ storeTable = NoRuns
    /\ storeOp = NoCall
    /\ storeBefore = ""

StoreInit ==
    /\ storeTable = NoRuns
    /\ storeOp = NoCall
    /\ storeBefore = ""

\* store.create_run(run_id=r, ...) with a fresh id
StoreCreate ==
    \E r \in StoredIds, a \in CreateInputs :
        /\ storeTable[r] = NoRow
        /\ storeTable' = create_run(storeTable, r, a.input_filename, a.source,
                                    RunStatus.QUEUED)
        /\ storeOp' = [NoCall EXCEPT !.method = "create_run", !.run = r,
                                     !.input_filename = a.input_filename,
                                     !.source = a.source]
        /\ storeBefore' = get_run(storeTable, r).status
        /\ UNCHANGED notStore

\* store.mark_running(r) on an existing run
StoreMarkRunning ==
    \E r \in StoredIds :
        /\ storeTable[r] # NoRow
        /\ storeTable' = mark_running(storeTable, r)
        /\ storeOp' = [NoCall EXCEPT !.method = "mark_running", !.run = r]
        /\ storeBefore' = get_run(storeTable, r).status
        /\ UNCHANGED notStore

\* store.mark_succeeded(r, csv_path=..., archive_path=None, ...)
StoreMarkSucceeded ==
    \E r \in StoredIds, csv_path \in CsvPaths :
        /\ storeTable[r] # NoRow
        /\ storeTable' = mark_succeeded(storeTable, r, csv_path, None)
        /\ storeOp' = [NoCall EXCEPT !.method = "mark_succeeded", !.run = r,
                                     !.csv_path = csv_path]
        /\ storeBefore' = get_run(storeTable, r).status
        /\ UNCHANGED notStore

\* store.mark_failed(r, "boom")
StoreMarkFailed ==
    \E r \in StoredIds :
        /\ storeTable[r] # NoRow
        /\ storeTable' = mark_failed(storeTable, r, "boom")
        /\ storeOp' = [NoCall EXCEPT !.method = "mark_failed", !.run = r]
        /\ storeBefore' = get_run(storeTable, r).status
        /\ UNCHANGED notStore

\* ---------------------------------------------------------------------
\* api/app.py _load_preview_rows on bounded export files
\* ---------------------------------------------------------------------
\* value or ""
or_empty(cell) == IF cell = None \/ cell = "" THEN "" ELSE cell

\* the for loop of _load_preview_rows from row i on
RECURSIVE preview_loop(_, _, _, _, _)
preview_loop(reader, limit, i, previews, seen_handles) ==
    IF i > Len(reader) THEN previews
    ELSE LET handle == or_empty(reader[i].Handle)
             appended == Append(previews,
                                [handle |-> handle,
                                 title |-> or_empty(reader[i].Title),
                                 body_html |-> or_empty(reader[i].Body)])
         IN  IF handle \in seen_handles
             THEN preview_loop(reader, limit, i + 1, previews, seen_handles)
             ELSE IF Len(appended) >= limit
             THEN appended
             ELSE preview_loop(reader, limit, i + 1, appended,
                               seen_handles \cup {handle})

\* a loop that stops one entry late
load_preview_rows_late(reader, limit) == preview_loop(reader, limit + 1, 1, <<>>, {})

\* _load_preview_rows(csv_path, limit); reader: the rows of the file
load_preview_rows(reader, limit) == preview_loop(reader, limit, 1, <<>>, {})

\* rows of an export file: the Handle, Title and Body (HTML) cells (None:
\* the column is missing from the row)
PreviewCells ==
    [Handle : {None, "", "handle-1", "handle-2", "handle-3"},
     Title : {"", "Product One", "Product One Alt"},
     Body : {"<p>HTML 1</p>"}]

PreviewIdle ==
    /\ previewFile = <<>>
    /\ previewLimit = 0
    /\ previewOut = <<>>
    /\ vpc = "idle"

PreviewInit ==
    /\ previewFile \in SeqsUpTo(PreviewCells, MaxPreviewRows)
    /\ previewLimit \in 1..MaxLimit
    /\ previewOut = <<>>
    /\ vpc = "arg"

\* _load_preview_rows(csv_path, limit)
LoadPreviewRows ==
    /\ vpc = "arg"
    /\ previewOut' = load_preview_rows(previewFile, previewLimit)
    /\ vpc' = "done"
    /\ UNCHANGED <<previewFile, previewLimit>>
    /\ UNCHANGED notPreview

\* ---------------------------------------------------------------------
\* scraper/parser.py Cafe24Parser._parse_price and _to_float
\* ---------------------------------------------------------------------
\* soup.find / select_one found nothing
NoTag == [present |-> FALSE, content |-> NoneStr]

\* a <meta> tag; content: its content attribute (NoneStr: it has none)
Meta(content) == [present |-> TRUE, content |-> content]

\* an element with the given text
Node(text) == [present |-> TRUE, content |-> Str(text)]

\* str.replace(old, "")
RECURSIVE replace(_, _)
replace(s, old) ==
    IF Len(s) < Len(old) THEN s
    ELSE IF SubSeq(s, 1, Len(old)) = old
    THEN replace(SubSeq(s, Len(old) + 1, Len(s)), old)
    ELSE <<s[1]>> \o replace(Tail(s), old)

\* the three characters that _to_float removes (a won sign, U+20A9, read
\* in the wrong encoding); a character outside Latin-1 is written as
\* its code point
WonMojibake == <<"â", "U+201A", "©">>

DigitSet == Range(DigitChars)

\* float(s) accepts an optional sign, then digits with at most one point
\* and at least one digit
unsigned(s) == IF s # <<>> /\ s[1] \in {"-", "+"} THEN Tail(s) ELSE s

IsFloat(s) ==
    LET u == unsigned(s)
    IN  /\ \A i \in 1..Len(u) : u[i] \in DigitSet \cup {"."}
        /\ Cardinality({i \in 1..Len(u) : u[i] = "."}) <= 1
        /\ \E i \in 1..Len(u) : u[i] \in DigitSet

DigitValue(c) == (CHOOSE d \in 1..10 : DigitChars[d] = c) - 1

RECURSIVE IntOf(_)
IntOf(ds) ==
    IF ds = <<>> THEN 0
    ELSE 10 * IntOf(SubSeq(ds, 1, Len(ds) - 1)) + DigitValue(ds[Len(ds)])

\* the value of float(s) in hundredths (further decimals are dropped)
FloatValue(s) ==
    LET u == unsigned(s)
        point == IF "." \in Range(u) THEN rfind(u, ".") ELSE Len(u) + 1
        whole == SubSeq(u, 1, point - 1)
        decimals == SubSeq(u \o <<"0", "0">>, point + 1, point + 2)
        magnitude == 100 * IntOf(whole)
                       + IntOf(IF point > Len(u) THEN <<"0", "0">> ELSE decimals)
    IN  IF s[1] = "-" THEN 0 - magnitude ELSE magnitude

\* _to_float: value is a string or None
to_float(value) ==
    IF ~TruthyStr(value) THEN NoneNum
    ELSE LET cleaned == strip(replace(replace(value.v, <<",">>), WonMojibake),
                              Whitespace)
         IN  IF IsFloat(cleaned) THEN Num(FloatValue(cleaned)) ELSE NoneNum

\* tag.get("content") if tag else None
content_of(tag) == IF tag.present THEN tag.content ELSE NoneStr

\* node.get_text(strip=True) if node else None
text_of(node) ==
    IF node.present THEN Str(strip(node.content.v, Whitespace)) ELSE NoneStr

\* a _parse_price that never looks at the selectors
parse_price_meta_only(page) ==
    [price |-> to_float(content_of(page.amount_meta)),
     sale_price |-> to_float(content_of(page.sale_meta)),
     currency |-> content_of(page.currency_meta)]

\* Cafe24Parser._parse_price
parse_price(page) ==
    LET price == to_float(content_of(page.amount_meta))
        sale_price == to_float(content_of(page.sale_meta))
        currency == content_of(page.currency_meta)
    IN  IF price.has
        THEN [price |-> price, sale_price |-> sale_price, currency |-> currency]
        ELSE [price |-> to_float(text_of(page.price_node)),
              sale_price |-> to_float(text_of(page.sale_node)),
              currency |-> currency]

\* Bounded pages: the price metadata tag is absent, has no content, or
\* has any short content over a digit, separators, a sign, a blank, a
\* letter and the won sign; the other tags and nodes take a few values.
PriceAlphabet == {"1", ",", ".", "-", " ", "x", "U+20A9"}

AmountTags ==
    {NoTag, Meta(NoneStr), Meta(Str(WonMojibake \o <<"1", "5">>))}
        \cup {Meta(Str(t)) : t \in SeqsUpTo(PriceAlphabet, MaxPriceLen)}

PricePages ==
    [amount_meta : AmountTags,
     sale_meta : {NoTag, Meta(Str(<<"9", ".", "5">>)), Meta(Str(<<"x">>))},
     currency_meta : {NoTag, Meta(Str(<<"K", "R", "W">>))},
     price_node : {NoTag, Node(<<" ", "8", ",", "9", "9", "0">>), Node(<<"x">>)},
     sale_node : {NoTag, Node(<<"7">>)}]

NoPrices == [price |-> NoneNum, sale_price |-> NoneNum, currency |-> NoneStr]

ParseIdle ==
    /\ pricePage = [amount_meta |-> NoTag, sale_meta |-> NoTag,
                    currency_meta |-> NoTag, price_node |-> NoTag,
                    sale_node |-> NoTag]
    /\ priceOut = NoPrices
    /\ rpc = "idle"

ParseInit ==
    /\ pricePage \in PricePages
    /\ priceOut = NoPrices
    /\ rpc = "page"

\* self._parse_price(soup)
ParsePrice ==
    /\ rpc = "page"
    /\ priceOut' = parse_price(pricePage)
    /\ rpc' = "parsed"
    /\ UNCHANGED pricePage
    /\ UNCHANGED notParse

\* ---------------------------------------------------------------------
\* scraper/ingest.py InputLoader.load on documents whose entries may be
\* empty, blank or padded with whitespace
\* ---------------------------------------------------------------------
\* every cell: a URL or nothing, with or without surrounding whitespace
PaddedEntries == {Entry(u, pad) : u \in URLs \cup {""}, pad \in BOOLEAN}

LoadFiles ==
    {[ext |-> e, wellFormed |-> TRUE, entries |-> s] :
        e \in SUPPORTED_EXTENSIONS, s \in SeqsUpTo(PaddedEntries, MaxInputs)}
    \cup
    {[ext |-> e, wellFormed |-> FALSE, entries |-> <<>>] : e \in Extensions}

LoadIdle ==
    /\ loadFile = [ext |-> ".csv", wellFormed |-> TRUE, entries |-> <<>>]
    /\ loadOut = [raised |-> FALSE, urls |-> <<>>]
    /\ lpc = "idle"

LoadInit ==
    /\ loadFile \in LoadFiles
    /\ loadOut = [raised |-> FALSE, urls |-> <<>>]
    /\ lpc = "file"

\* InputLoader(path).load()
LoadInputs ==
    /\ lpc = "file"
    /\ loadOut' = InputLoader_load(loadFile)
    /\ lpc' = "loaded"
    /\ UNCHANGED loadFile
    /\ UNCHANGED notLoad

\* ---------------------------------------------------------------------
\* Specifications
\* ---------------------------------------------------------------------
Init ==
    /\ PipelineInit
    /\ RunInit
    /\ TransformIdle
    /\ ExportIdle
    /\ ArchiveIdle
    /\ PrepareIdle
    /\ ItemIdle
    /\ SlugIdle
    /\ StoreIdle
    /\ PreviewIdle
    /\ ParseIdle
    /\ LoadIdle

Next == Load \/ ProcessItem \/ ExportCsv \/ Finish

Spec == Init /\ [][Next]_vars

RunSpecInit ==
    /\ PipelineIdle
    /\ RunInit
    /\ TransformIdle
    /\ ExportIdle
    /\ ArchiveIdle
    /\ PrepareIdle
    /\ ItemIdle
    /\ SlugIdle
    /\ StoreIdle
    /\ PreviewIdle
    /\ ParseIdle
    /\ LoadIdle

RunNext ==
    \/ EnqueueRun
    \/ \E r \in RunIds : TaskStart(r)
    \/ \E r \in RunIds : TaskSubmit(r)
    \/ WorkerPick
    \/ \E r \in RunIds : WorkerFinish(r)
    \/ \E r \in RunIds : TaskResume(r)
    \/ Shutdown

RunSpec == RunSpecInit /\ [][RunNext]_vars

\* RunSpec with progress: the event loop runs every task that is ready,
\* the executor thread takes queued work whenever it is free, and every
\* pipeline invocation terminates.  enqueue_run and shutdown are calls of
\* the application and need not happen.
RunFairness ==
    /\ \A r \in RunIds : WF_vars(TaskStart(r))
    /\ \A r \in RunIds : WF_vars(TaskSubmit(r))
    /\ WF_vars(WorkerPick)
    /\ \A r \in RunIds : WF_vars(WorkerFinish(r))
    /\ \A r \in RunIds : WF_vars(TaskResume(r))

RunLiveSpec == RunSpecInit /\ [][RunNext]_vars /\ RunFairness

TransformSpecInit ==
    /\ PipelineIdle
    /\ RunInit
    /\ TransformInit
    /\ ExportIdle
    /\ ArchiveIdle
    /\ PrepareIdle
    /\ ItemIdle
    /\ SlugIdle
    /\ StoreIdle
    /\ PreviewIdle
    /\ ParseIdle
    /\ LoadIdle

TransformNext == Transform \/ ToRows

TransformSpec == TransformSpecInit /\ [][TransformNext]_vars

ExportSpecInit ==
    /\ PipelineIdle
    /\ RunInit
    /\ TransformIdle
    /\ ExportInit
    /\ ArchiveIdle
    /\ PrepareIdle
    /\ ItemIdle
    /\ SlugIdle
    /\ StoreIdle
    /\ PreviewIdle
    /\ ParseIdle
    /\ LoadIdle

ExportNext == WriteCsv

ExportSpec == ExportSpecInit /\ [][ExportNext]_vars

ArchiveSpecInit ==
    /\ PipelineIdle
    /\ RunInit
    /\ TransformIdle
    /\ ExportIdle
    /\ ArchiveInit
    /\ PrepareIdle
    /\ ItemIdle
    /\ SlugIdle
    /\ StoreIdle
    /\ PreviewIdle
    /\ ParseIdle
    /\ LoadIdle

ArchiveNext == ZipDirectory \/ ArchiveOutputs

ArchiveSpec == ArchiveSpecInit /\ [][ArchiveNext]_vars

PrepareSpecInit ==
    /\ PipelineIdle
    /\ RunInit
    /\ TransformIdle
    /\ ExportIdle
    /\ ArchiveIdle
    /\ PrepareInit
    /\ ItemIdle
    /\ SlugIdle
    /\ StoreIdle
    /\ PreviewIdle
    /\ ParseIdle
    /\ LoadIdle

PrepareNext == DownloadImages \/ DownloadAndPrepare

PrepareSpec == PrepareSpecInit /\ [][PrepareNext]_vars

ItemSpecInit ==
    /\ PipelineIdle
    /\ RunInit
    /\ TransformIdle
    /\ ExportIdle
    /\ ArchiveIdle
    /\ PrepareIdle
    /\ ItemInit
    /\ SlugIdle
    /\ StoreIdle
    /\ PreviewIdle
    /\ ParseIdle
    /\ LoadIdle

ItemNext == PrepareMain \/ PrepareGallery \/ PrepareDetail \/ TransformItem

ItemSpec == ItemSpecInit /\ [][ItemNext]_vars

SlugSpecInit ==
    /\ PipelineIdle
    /\ RunInit
    /\ TransformIdle
    /\ ExportIdle
    /\ ArchiveIdle
    /\ PrepareIdle
    /\ ItemIdle
    /\ SlugInit
    /\ StoreIdle
    /\ PreviewIdle
    /\ ParseIdle
    /\ LoadIdle

SlugNext == Slugify

SlugSpec == SlugSpecInit /\ [][SlugNext]_vars

StoreSpecInit ==
    /\ PipelineIdle
    /\ RunInit
    /\ TransformIdle
    /\ ExportIdle
    /\ ArchiveIdle
    /\ PrepareIdle
    /\ ItemIdle
    /\ SlugIdle
    /\ StoreInit
    /\ PreviewIdle
    /\ ParseIdle
    /\ LoadIdle

StoreNext == StoreCreate \/ StoreMarkRunning \/ StoreMarkSucceeded \/ StoreMarkFailed

StoreSpec == StoreSpecInit /\ [][StoreNext]_vars

PreviewSpecInit ==
    /\ PipelineIdle
    /\ RunInit
    /\ TransformIdle
    /\ ExportIdle
    /\ ArchiveIdle
    /\ PrepareIdle
    /\ ItemIdle
    /\ SlugIdle
    /\ StoreIdle
    /\ PreviewInit
    /\ ParseIdle
    /\ LoadIdle

PreviewNext == LoadPreviewRows

PreviewSpec == PreviewSpecInit /\ [][PreviewNext]_vars

ParseSpecInit ==
    /\ PipelineIdle
    /\ RunInit
    /\ TransformIdle
    /\ ExportIdle
    /\ ArchiveIdle
    /\ PrepareIdle
    /\ ItemIdle
    /\ SlugIdle
    /\ StoreIdle
    /\ PreviewIdle
    /\ ParseInit
    /\ LoadIdle

ParseNext == ParsePrice

ParseSpec == ParseSpecInit /\ [][ParseNext]_vars

LoadSpecInit ==
    /\ PipelineIdle
    /\ RunInit
    /\ TransformIdle
    /\ ExportIdle
    /\ ArchiveIdle
    /\ PrepareIdle
    /\ ItemIdle
    /\ SlugIdle
    /\ StoreIdle
    /\ PreviewIdle
    /\ ParseIdle
    /\ LoadInit

LoadNext == LoadInputs

LoadSpec == LoadSpecInit /\ [][LoadNext]_vars

\* =====================================================================
\* Properties of run_pipeline (checked under Spec)
\* =====================================================================
FetchErrors == {"http_error", "conn_error", "timeout"}

\* the failure entries / records the items processed so far must have left
FailuresOf(h) ==
    LET sel == SelectSeq(h, LAMBDA x : x.raised)
    IN  [i \in 1..Len(sel) |-> [url |-> sel[i].url, error |-> sel[i].error]]

RecordsOf(h) ==
    LET sel == SelectSeq(h, LAMBDA x : ~x.raised)
    IN  [i \in 1..Len(sel) |-> [url |-> sel[i].url]]

\* C1: whatever subset of the items raises, the loop handles every input
\* in input order: the k-th iteration handles inputs[k], each raising item
\* leaves exactly one {url, error} entry in failures, each other item
\* exactly one record, the loop itself never raises, and it is left only
\* when every input has been handled.
C1_FailureIsolation ==
    /\ Len(outcomes) = idx
    /\ \A k \in 1..Len(outcomes) : outcomes[k].url = inputs[k]
    /\ failures = FailuresOf(outcomes)
    /\ records = RecordsOf(outcomes)
    /\ raisedAt # "item"
    /\ pc \in {"archive", "returned"} => idx = Len(inputs)

\* a run that returned although its first item raised and a later one
\* did not
C1_Witness ==
    /\ pc = "returned"
    /\ Len(outcomes) = 3
    /\ outcomes[1].raised /\ ~outcomes[2].raised /\ outcomes[3].raised
    /\ outcomes[3].error = "image_error"

\* C2: when run_pipeline has returned, the summary's success_count is the
\* number of records, failure_count the number of failure entries, and
\* their sum the number of distinct URLs of the input; a 3-URL input
\* whose 2nd fetch raises gives 2 successes, 1 failure entry naming URL
\* #2 and failure_count = 1.
ThreeUrlCase ==
    /\ file.entries = <<Entry("a", FALSE), Entry("b", FALSE), Entry("c", FALSE)>>
    /\ Len(outcomes) = 3
    /\ ~outcomes[1].raised
    /\ outcomes[2].error \in FetchErrors
    /\ ~outcomes[3].raised

C2_SummaryCounts ==
    pc = "returned" =>
        /\ summary.success_count = Len(records)
        /\ summary.failure_count = Len(failures)
        /\ summary.failures = failures
        /\ summary.success_count + summary.failure_count
               = Cardinality(Range(InputLoader_load(file).urls))
        /\ ThreeUrlCase =>
               /\ summary.success_count = 2
               /\ summary.failure_count = 1
               /\ Len(summary.failures) = 1
               /\ summary.failures[1].url = "b"

C2_Witness == pc = "returned" /\ ThreeUrlCase /\ summary.failure_count = 1

\* C3: _dedupe_inputs keeps each URL at its first occurrence and removes
\* every later repeat: the result has no duplicate, holds exactly the URLs
\* of the input, and lists them in the order of their first occurrences.
FirstIndex(s, x) == CHOOSE i \in 1..Len(s) : s[i] = x /\ \A j \in 1..(i - 1) : s[j] # x

NoDuplicates(s) == \A i, j \in 1..Len(s) : i # j => s[i] # s[j]

C3_DedupeFirstSeen ==
    pc \in {"loop", "archive", "returned"} =>
        LET loaded == InputLoader_load(file).urls
        IN  /\ NoDuplicates(inputs)
            /\ Range(inputs) = Range(loaded)
            /\ \A i, j \in 1..Len(inputs) :
                   i < j => FirstIndex(loaded, inputs[i]) < FirstIndex(loaded, inputs[j])

\* the input a, b, a deduplicated to a, b
C3_Witness ==
    /\ pc = "loop"
    /\ InputLoader_load(file).urls = <<"a", "b", "a">>
    /\ inputs = <<"a", "b">>

\* C6: every call of Cafe24Client.fetch applies the rate-limit delay
\* before it returns or raises, whatever the outcome.
C6_DelayOnEveryFetch == delayCount = Len(fetchLog)

\* C7: within one run the page of each input URL is fetched at most once:
\* the fetches are those of the items handled so far, one each, and a
\* fetch that raises leaves exactly one failure entry for its URL.
C7_NoRetry ==
    /\ NoDuplicates(fetchLog)
    /\ fetchLog = [k \in 1..idx |-> inputs[k]]
    /\ \A k \in 1..Len(outcomes) :
           outcomes[k].error \in FetchErrors =>
               Cardinality({i \in 1..Len(failures) : failures[i].url = outcomes[k].url}) = 1

\* a failed fetch followed by the handling of the next item
C7_Witness ==
    /\ Len(outcomes) >= 2
    /\ outcomes[1].error = "timeout"
    /\ Len(fetchLog) = 2

\* C8: with an unsupported extension, a CSV without a url column or a
\* JSON document that is not a list, run_pipeline raises before any page
\* fetch or image download is issued and before any item is handled.
BadInput == file.ext \notin {".csv", ".json"} \/ ~file.wellFormed

C8_BadInputFailsFast ==
    BadInput =>
        /\ pc \in {"start", "raised"}
        /\ pc = "raised" => raisedAt = "setup"
        /\ fetchLog = <<>>
        /\ ~imageRequested
        /\ idx = 0 /\ records = <<>> /\ failures = <<>>

C8_Witness ==
    /\ pc = "raised"
    /\ file.ext = ".txt" /\ file.wellFormed /\ file.entries # <<>>
    /\ fetchLog = <<>>

\* C9 as stated: run_pipeline raises only before any per-item work.
C9_RaisesOnlyBeforeItems ==
    pc = "raised" => (idx = 0 /\ fetchLog = <<>> /\ ~imageRequested)

\* C9 as amended: run_pipeline raises either before any per-item work, or
\* after every input has been handled, when the export, the archiving or
\* the summary write fails; it never raises from inside the loop.
C9_RaisesBeforeOrAfterLoop ==
    pc = "raised" =>
        \/ /\ raisedAt = "setup"
           /\ idx = 0 /\ fetchLog = <<>> /\ ~imageRequested
        \/ /\ raisedAt \in {"export", "archive", "summary"}
           /\ idx = Len(inputs)
           /\ Len(records) + Len(failures) = Len(inputs)

\* the export fails after two items were handled, one of which raised
C9_Witness ==
    /\ pc = "raised" /\ raisedAt = "export"
    /\ Len(records) = 1 /\ Len(failures) = 1

\* =====================================================================
\* Properties of RunManager (checked under RunSpec)
\* =====================================================================
StatusSteps ==
    {<<"absent", "queued">>, <<"queued", "running">>,
     <<"running", "succeeded">>, <<"running", "failed">>}

\* C4: the stored status of a run only moves QUEUED -> RUNNING ->
\* SUCCEEDED or QUEUED -> RUNNING -> FAILED: every change of the status
\* is one of these steps, so it is never SUCCEEDED or FAILED without
\* having been RUNNING, and a SUCCEEDED or FAILED status never changes.
C4_StatusLifecycle ==
    [][\A r \in RunIds :
          StatusOf(runs, r) # StatusOf(runs', r)
              => <<StatusOf(runs, r), StatusOf(runs', r)>> \in StatusSteps]_vars

\* one run has succeeded and another has failed
C4_Witness ==
    /\ StatusOf(runs, 1) = "succeeded"
    /\ StatusOf(runs, 2) = "failed"

\* C5: at most one run's pipeline executes at any moment, and the runs
\* submitted after it are still waiting (or cancelled) while it does.
C5_OnePipelineAtATime ==
    /\ Cardinality(Executing(future)) <= 1
    /\ \A r \in Executing(future) :
           \A q \in Range(queue) : future[q] = "pending"

\* one pipeline executes while a later run waits for the worker
C5_Witness ==
    /\ future[1] = "running"
    /\ future[2] = "pending"
    /\ queue = <<2>>

\* =====================================================================
\* Properties of raw_to_shopify (checked under TransformSpec)
\* =====================================================================
\* C10 as stated: effective price = sale_price if present, else price if
\* present, else 0; compare-at = price if sale_price is present, else
\* absent; with both present the exported Variant Price is the sale price
\* and Variant Compare At Price the original price, with neither the
\* price is 0 and compare-at is empty.
C10_PricesByPresence ==
    tpc \in {"record", "rows"} =>
        LET variant == shop.variants[1]
        IN  /\ variant.price =
                   (IF raw.sale_price.has THEN raw.sale_price.v
                    ELSE IF raw.price.has THEN raw.price.v ELSE 0)
            /\ variant.compare_at_price =
                   (IF raw.sale_price.has THEN raw.price ELSE NoneNum)
            /\ tpc = "rows" =>
                   /\ (raw.sale_price.has /\ raw.price.has) =>
                          /\ rows[1]["Variant Price"] = Format2f(raw.sale_price.v)
                          /\ rows[1]["Variant Compare At Price"] = Format2f(raw.price.v)
                   /\ (~raw.sale_price.has /\ ~raw.price.has) =>
                          /\ rows[1]["Variant Price"] = <<"0", ".", "0", "0">>
                          /\ rows[1]["Variant Compare At Price"] = <<>>

\* C10 as amended: a price or sale_price of 0 counts as absent.
\* Effective price = sale_price if present and non-zero, else price if
\* present, else 0; compare-at = price if sale_price is present and
\* non-zero, else sale_price itself (absent or 0); the exported compare-at
\* is the 2-decimal compare-at when that is present and non-zero, else
\* empty.  With both present and non-zero the exported Variant Price is
\* the sale price and Variant Compare At Price the original price; with
\* neither present the price is 0.00 and compare-at is empty.
NonZero(x) == x.has /\ x.v # 0

C10_PricesByTruthiness ==
    tpc \in {"record", "rows"} =>
        LET variant == shop.variants[1]
        IN  /\ Len(shop.variants) = 1
            /\ variant.price =
                   (IF NonZero(raw.sale_price) THEN raw.sale_price.v
                    ELSE IF raw.price.has THEN raw.price.v ELSE 0)
            /\ variant.compare_at_price =
                   (IF NonZero(raw.sale_price) THEN raw.price ELSE raw.sale_price)
            /\ tpc = "rows" =>
                   /\ Len(rows) = 1
                   /\ rows[1]["Variant Price"] = Format2f(variant.price)
                   /\ rows[1]["Variant Compare At Price"] =
                          (IF NonZero(raw.sale_price) /\ NonZero(raw.price)
                           THEN Format2f(raw.price.v) ELSE <<>>)
                   /\ (NonZero(raw.sale_price) /\ NonZero(raw.price)) =>
                          /\ rows[1]["Variant Price"] = Format2f(raw.sale_price.v)
                          /\ rows[1]["Variant Compare At Price"] = Format2f(raw.price.v)
                   /\ (~raw.sale_price.has /\ ~raw.price.has) =>
                          /\ rows[1]["Variant Price"] = <<"0", ".", "0", "0">>
                          /\ rows[1]["Variant Compare At Price"] = <<>>

\* a product on sale at 2.50 instead of 19.99, exported
C10_Witness ==
    /\ tpc = "rows"
    /\ raw.sale_price = Num(250) /\ raw.price = Num(1999)
    /\ rows[1]["Variant Price"] = <<"2", ".", "5", "0">>
    /\ rows[1]["Variant Compare At Price"] = <<"1", "9", ".", "9", "9">>

\* ---------------------------------------------------------------------
\* ExportSpec
\* ---------------------------------------------------------------------
Max(a, b) == IF a > b THEN a ELSE b

RECURSIVE SumRows(_)
SumRows(recs) ==
    IF recs = <<>> THEN 0
    ELSE Max(1, Len(Head(recs).variants)) + SumRows(Tail(recs))

\* C11: to_rows yields one row per variant, in variant order, for a
\* record with variants, and exactly one placeholder row (empty Variant
\* SKU, Variant Price, Variant Compare At Price and empty image fields)
\* for a record without; the export has the sum over the records of
\* max(1, number of variants) data rows.
C11_RowsPerVariant ==
    epc = "written" =>
        /\ \A i \in 1..Len(expRecords) :
              LET rec == expRecords[i]
                  rs == rowsOf[i]
              IN  IF rec.variants = <<>>
                  THEN /\ Len(rs) = 1
                       /\ rs[1]["Handle"] = rec.handle
                       /\ rs[1]["Variant SKU"] = <<>>
                       /\ rs[1]["Variant Price"] = <<>>
                       /\ rs[1]["Variant Compare At Price"] = <<>>
                       /\ rs[1]["Image Src"] = ""
                       /\ rs[1]["Image Position"] = ""
                       /\ rs[1]["Image Alt Text"] = <<>>
                  ELSE /\ Len(rs) = Len(rec.variants)
                       /\ \A j \in 1..Len(rs) :
                             /\ rs[j]["Handle"] = rec.handle
                             /\ rs[j]["Variant SKU"] = rec.variants[j].sku
        /\ Len(csvOut.data) = SumRows(expRecords)

C11_Witness ==
    /\ epc = "written"
    /\ Len(expRecords) = 2
    /\ expRecords[1].variants = <<>>
    /\ expRecords[1].images # <<>>
    /\ Len(expRecords[2].variants) = 2
    /\ Len(csvOut.data) = 3

\* C12: with nothing to export, _export_csv still writes the file: a
\* header with the Handle and Title columns and no data rows.
C12_EmptyExportHasHeader ==
    epc = "written" =>
        /\ csvOut.written
        /\ {"Handle", "Title"} \subseteq Range(csvOut.header)
        /\ extend_rows(rowsOf) = <<>> =>
              /\ csvOut.header = <<"Handle", "Title">>
              /\ csvOut.data = <<>>

C12_Witness ==
    /\ epc = "written"
    /\ expRecords = <<>>
    /\ csvOut.written
    /\ csvOut.data = <<>>
\* ---------------------------------------------------------------------
\* ArchiveSpec
\* ---------------------------------------------------------------------
\* the archive files on disk that were made for a destination
ArchivesFor(destination) == {f \in arcDisk : f.stem = destination.stem}

\* what one archive of a finished run must look like, given the state of
\* its directory
ArchiveReported(dir, destination, path, key) ==
    IF dir \in {"missing", "empty"}
    THEN /\ path = NoPath
         /\ ArchivesFor(destination) = {}
         /\ key \notin DOMAIN arcResult.summary
    ELSE arcSettings.zip_outputs =>
           /\ path # NoPath
           /\ path \in arcDisk
           /\ key \in DOMAIN arcResult.summary
           /\ arcResult.summary[key] = path

\* C13: archiving a directory that does not exist or is empty returns no
\* path and creates no zip file, the archive is absent from the
\* PipelineResult and its key is absent from the run summary; archiving a
\* non-empty directory returns the path of an archive file that exists.
C13_EmptyDirectoryNoArchive ==
    /\ apc = "zipped" =>
          IF dirImages \in {"missing", "empty"}
          THEN zipReturned = NoPath /\ arcDisk = {}
          ELSE zipReturned # NoPath /\ zipReturned \in arcDisk
    /\ apc = "returned" =>
          /\ ArchiveReported(dirImages, arcSettings.zip_images_name,
                             arcResult.images_zip, "images_archive")
          /\ ArchiveReported(dirScreenshots, arcSettings.zip_screenshots_name,
                             arcResult.screenshots_zip, "screenshots_archive")

C13_Witness ==
    /\ apc = "returned"
    /\ arcSettings.zip_outputs
    /\ dirImages = "empty"
    /\ dirScreenshots = "nonempty"
    /\ arcResult.images_zip = NoPath
    /\ arcResult.screenshots_zip = Path("shots", ".zip")
    /\ DOMAIN arcResult.summary =
          {"success_count", "failure_count", "failures", "screenshots_archive"}
\* ---------------------------------------------------------------------
\* PrepareSpec
\* ---------------------------------------------------------------------
\* the download of the URL at position i fails: the request does, or the
\* file cannot be stored
DownloadFails(i) ==
    \/ imgWorld[i].net = "fail"
    \/ "/" \in Range(OrElse(infer_extension(imgUrls[i]), Str(<<".">>)).v)

\* the positions whose download succeeds, in input order
Downloadable ==
    SelectSeq([i \in 1..Len(imgUrls) |-> i], LAMBDA i : ~DownloadFails(i))

\* C14: download_images returns results for exactly the URLs whose
\* download does not fail, in input order, and the file of the URL at
\* 1-based position i is named {prefix}_{kind}_{i}{ext}, whatever
\* happened to the URLs before it.
C14_DownloadResults ==
    ppc \in {"downloaded", "prepared"} =>
        /\ Len(imgDownloads) = Len(Downloadable)
        /\ \A k \in 1..Len(imgDownloads) :
              LET i == Downloadable[k]
                  ext == infer_extension(imgUrls[i])
              IN  /\ imgDownloads[k].source_url = imgUrls[i]
                  /\ imgDownloads[k].kind = imgKind
                  /\ imgDownloads[k].path =
                        LocalFile("out",
                                  Filename(ImagePrefix, imgKind, i,
                                           IF ext.has THEN ext.v
                                           ELSE <<".", "j", "p", "g">>))

C14_Witness ==
    /\ ppc = "downloaded"
    /\ Len(imgUrls) = 2
    /\ imgWorld[1].net = "fail"
    /\ imgUrls[2] = Url(<<"/", "a", ".", "p", "n", "g">>)
    /\ Len(imgDownloads) = 1
    /\ imgDownloads[1].path.at.index = 2
    /\ imgDownloads[1].path.at.suffix = <<".", "p", "n", "g">>

\* the file at position i cannot be cropped or optimized
ProcessingFails(i) ==
    \/ ~imgWorld[i].decodes
    \/ /\ imgKind = "detail"
       /\ imgTemplate = "present"
       /\ imgWorld[i].height < template_shape.height

\* C15: a failure while one image is downloaded, cropped or optimized
\* does not propagate: _download_and_prepare returns, without that image
\* and with every other one.
C15_ImageFailureIsolated ==
    ppc = "prepared" =>
        /\ ~imgPrepared.raised
        /\ \A i \in 1..Len(imgUrls) :
              (~DownloadFails(i) /\ ~ProcessingFails(i)) =>
                  \E k \in 1..Len(imgPrepared.paths) :
                      imgPrepared.paths[k].at.index = i
\* ---------------------------------------------------------------------
\* ItemSpec
\* ---------------------------------------------------------------------
\* C16: every image reference of the record of a product that was
\* processed successfully (the main image, every gallery image, every
\* detail image appended to the body) is a local path, never a remote
\* URL, whichever downloads failed.
C16_ImagesAreLocal ==
    \A k \in 1..Len(itemRecords) :
        LET rec == itemRecords[k].record
        IN  /\ \A i \in 1..Len(rec.images) : ~IsRemote(rec.images[i].src)
            /\ \A i \in 1..Len(rec.body_html.imgs) :
                  ~IsRemote(rec.body_html.imgs[i].src)

\* C17: two successful records of one run that come from two different
\* input URLs never have the same handle.
C17_HandlesUnique ==
    \A j, k \in 1..Len(itemRecords) :
        itemRecords[j].url # itemRecords[k].url =>
            itemRecords[j].record.handle # itemRecords[k].record.handle
\* ---------------------------------------------------------------------
\* SlugSpec
\* ---------------------------------------------------------------------
Product == <<"p", "r", "o", "d", "u", "c", "t">>

\* a lowercase ASCII letter or a digit: what a slug is made of, besides
\* dashes
Alphanumeric(c) ==
    c \in {"a", "b", "c", "d", "e", "f", "g", "h", "i", "j", "k", "l", "m",
           "n", "o", "p", "q", "r", "s", "t", "u", "v", "w", "x", "y", "z",
           "0", "1", "2", "3", "4", "5", "6", "7", "8", "9"}

\* C18: for every input, slugify returns a non-empty string of a-z, 0-9
\* and '-' only, without a leading or trailing dash and without two
\* dashes in a row; it returns "product" when the input holds no letter
\* or digit; and slugify("Cafe24 Product") is "cafe24-product".
C18_SlugShape ==
    spc = "done" =>
        /\ slugOut # <<>>
        /\ \A i \in 1..Len(slugOut) : Alphanumeric(slugOut[i]) \/ slugOut[i] = "-"
        /\ slugOut[1] # "-"
        /\ slugOut[Len(slugOut)] # "-"
        /\ \A i \in 1..(Len(slugOut) - 1) :
              ~(slugOut[i] = "-" /\ slugOut[i + 1] = "-")
        /\ (\A i \in 1..Len(slugIn.v) :
               slugIn.v[i] \notin {"a", "B", "1", "C", "f", "e", "2", "4",
                                   "P", "r", "o", "d", "u", "c", "t"})
              => slugOut = Product
        /\ slugIn = Str(Cafe24Product) =>
              slugOut = <<"c", "a", "f", "e", "2", "4", "-",
                          "p", "r", "o", "d", "u", "c", "t">>

C18_Witness ==
    /\ spc = "done"
    /\ slugIn = Str(<<" ", "É", "-", "!">>)
    /\ slugOut = Product
\* ---------------------------------------------------------------------
\* RunSpec: the RunStore calls of the RunManager
\* ---------------------------------------------------------------------
CallsOf(r, method) == SelectSeq(storeLog[r], LAMBDA c : c.method = method)

\* C19: during a successful _run_background the store's
\* set_archive_path is called exactly twice, each time with
\* output_dir/deliverables.zip, and mark_succeeded exactly once.
C19_ArchivePathSetTwice ==
    \A r \in RunIds :
        StatusOf(runs, r) = "succeeded" =>
            /\ Len(CallsOf(r, "set_archive_path")) = 2
            /\ \A k \in 1..Len(CallsOf(r, "set_archive_path")) :
                  CallsOf(r, "set_archive_path")[k].arg = "deliverables.zip"
            /\ Len(CallsOf(r, "mark_succeeded")) = 1

\* an enqueue_run call has just raised / has just returned a run id
EnqueueRaised == enqueueResult' # enqueueResult /\ enqueueResult'.raised

EnqueueReturned == enqueueResult' # enqueueResult /\ ~enqueueResult'.raised

\* C20: enqueue_run on a path that does not exist raises and leaves the
\* store and the tasks as they were; on an existing file it creates
\* exactly one run record, with status queued, schedules its background
\* task and returns its id.
C20_EnqueueRun ==
    [][/\ EnqueueRaised =>
            /\ runs' = runs
            /\ storeLog' = storeLog
            /\ task' = task
       /\ EnqueueReturned =>
            LET r == enqueueResult'.run_id
            IN  /\ r \in RunIds
                /\ runs[r] = NoRow
                /\ runs'[r].status = "queued"
                /\ \A q \in RunIds \ {r} : runs'[q] = runs[q]
                /\ storeLog' = [storeLog EXCEPT
                                  ![r] = <<[method |-> "create_run", arg |-> "queued"]>>]
                /\ task' = [task EXCEPT ![r] = "scheduled"]]_vars

C20_Witness ==
    /\ enqueueResult.raised
    /\ nextRun = 2
    /\ StatusOf(runs, 1) = "queued"
    /\ storeLog[1] = <<[method |-> "create_run", arg |-> "queued"]>>
    /\ \A r \in RunIds \ {1} : runs[r] = NoRow /\ task[r] = "none"

\* ---------------------------------------------------------------------
\* Properties of RunStore (checked under StoreSpec)
\* ---------------------------------------------------------------------
\* C21: a created run reads back with status QUEUED and the given
\* filename and source; mark_running, mark_succeeded and mark_failed on
\* an existing run make get_run report RUNNING, SUCCEEDED and FAILED,
\* whatever the status was before, and mark_succeeded persists the given
\* csv_path.
C21_StoreReadsBack ==
    storeOp.method # "" =>
        LET record == get_run(storeTable, storeOp.run)
        IN  /\ storeOp.method = "create_run" =>
                  /\ record.status = "QUEUED"
                  /\ record.input_filename = storeOp.input_filename
                  /\ record.source = storeOp.source
            /\ storeOp.method = "mark_running" => record.status = "RUNNING"
            /\ storeOp.method = "mark_succeeded" =>
                  /\ record.status = "SUCCEEDED"
                  /\ record.csv_path = storeOp.csv_path
            /\ storeOp.method = "mark_failed" => record.status = "FAILED"

\* mark_failed was applied to a run that had succeeded with a csv_path
C21_Witness ==
    /\ storeOp.method = "mark_failed"
    /\ storeBefore = "SUCCEEDED"
    /\ get_run(storeTable, storeOp.run).status = "FAILED"
    /\ get_run(storeTable, storeOp.run).csv_path = Path("shopify", ".csv")
    /\ get_run(storeTable, storeOp.run).input_filename = "foo.csv"

\* ---------------------------------------------------------------------
\* Properties of _load_preview_rows (checked under PreviewSpec)
\* ---------------------------------------------------------------------
\* the handles of the file
PreviewHandles == {or_empty(previewFile[i].Handle) : i \in 1..Len(previewFile)}

\* the first row of the file that carries the handle
FirstRowOf(h) ==
    CHOOSE i \in 1..Len(previewFile) :
        /\ or_empty(previewFile[i].Handle) = h
        /\ \A j \in 1..(i - 1) : or_empty(previewFile[j].Handle) # h

\* C22: _load_preview_rows returns at most limit entries with pairwise
\* distinct handles, each taken from the first row of its handle, in file
\* order, and one entry per distinct handle when the file has fewer than
\* limit of them.
C22_PreviewRows ==
    vpc = "done" =>
        /\ Len(previewOut) <= previewLimit
        /\ \A k, l \in 1..Len(previewOut) :
              k # l => previewOut[k].handle # previewOut[l].handle
        /\ \A k \in 1..Len(previewOut) :
              /\ previewOut[k].handle \in PreviewHandles
              /\ LET row == previewFile[FirstRowOf(previewOut[k].handle)]
                 IN  /\ previewOut[k].title = or_empty(row.Title)
                     /\ previewOut[k].body_html = or_empty(row.Body)
        /\ \A k, l \in 1..Len(previewOut) :
              k < l => FirstRowOf(previewOut[k].handle)
                          < FirstRowOf(previewOut[l].handle)
        /\ Cardinality(PreviewHandles) < previewLimit =>
              {previewOut[k].handle : k \in 1..Len(previewOut)} = PreviewHandles

\* the file of tests/test_preview.py cut to three rows, with limit 2: a
\* repeated handle is skipped and the second handle ends the list
C22_Witness ==
    /\ vpc = "done"
    /\ previewLimit = 2
    /\ Len(previewFile) = 3
    /\ previewFile[1].Handle = "handle-1" /\ previewFile[1].Title = "Product One"
    /\ previewFile[2].Handle = "handle-1" /\ previewFile[2].Title = "Product One Alt"
    /\ previewFile[3].Handle = "handle-2"
    /\ Len(previewOut) = 2
    /\ previewOut[1].title = "Product One"
    /\ previewOut[2].handle = "handle-2"

\* ---------------------------------------------------------------------
\* Properties of _download_and_prepare: the order of the steps
\* (checked under PrepareSpec)
\* ---------------------------------------------------------------------
\* the downloaded file a path was derived from
OriginalOf(path) == [path EXCEPT !.at.cropped = FALSE]

IsOptimize(call) == call.method = "optimize_image"

\* the template is found in the served image with a confident match that
\* leaves rows below it
CropSucceeds(served) ==
    /\ imgTemplate = "present"
    /\ served.decodes
    /\ served.score >= match_threshold
    /\ served.y + template_shape.height + buffer_pixels < served.height

\* C23: every image is downloaded, then cropped, then optimized; crop is
\* attempted only for kind "detail" with a template name configured; the
\* path optimized and recorded is the cropped path exactly when the crop
\* succeeded and the downloaded path otherwise, in particular when the
\* match score is below 0.8.
C23_DownloadCropOptimize ==
    ppc = "prepared" =>
        LET calls == imgPrepared.calls
            configured == imgKind = "detail" /\ imgTemplate # "unset"
            optimized == SelectSeq(calls, IsOptimize)
        IN  /\ \A k \in 1..Len(calls) :
                  calls[k].method = "crop_detail_image" =>
                      /\ configured
                      /\ \E j \in 1..(k - 1) :
                            calls[j] = ImageCall("download_single", calls[k].path)
            /\ \A k \in 1..Len(calls) :
                  calls[k].method = "optimize_image" =>
                      LET target == calls[k].path
                          original == OriginalOf(target)
                          served == imgWorld[original.at.index]
                      IN  /\ \E j \in 1..(k - 1) :
                                calls[j] = ImageCall("download_single", original)
                          /\ \A j \in 1..Len(calls) :
                                calls[j] = ImageCall("crop_detail_image", original)
                                    => j < k
                          /\ configured =>
                                \E j \in 1..(k - 1) :
                                    calls[j] = ImageCall("crop_detail_image", original)
                          /\ target.at.cropped <=> (configured /\ CropSucceeds(served))
                          /\ served.score < match_threshold => ~target.at.cropped
            /\ Len(imgPrepared.paths)
                   = Len(optimized) - (IF imgPrepared.raised
                                          /\ IsOptimize(calls[Len(calls)])
                                       THEN 1 ELSE 0)
            /\ \A k \in 1..Len(imgPrepared.paths) :
                  imgPrepared.paths[k] = relative(optimized[k].path, "out")

\* two detail images with a template configured: the first matches with
\* score 0.79 and is recorded as downloaded, the second matches with score
\* 0.80 and is recorded cropped
C23_Witness ==
    /\ ppc = "prepared"
    /\ imgKind = "detail"
    /\ imgTemplate = "present"
    /\ Len(imgUrls) = 2
    /\ imgWorld[1].score = 79 /\ imgWorld[1].decodes
    /\ imgWorld[2].score = 80
    /\ ~imgPrepared.raised
    /\ Len(imgPrepared.paths) = 2
    /\ ~imgPrepared.paths[1].at.cropped
    /\ imgPrepared.paths[2].at.cropped

\* ---------------------------------------------------------------------
\* Properties of raw_to_shopify: images and body (checked under
\* TransformSpec)
\* ---------------------------------------------------------------------
\* C24: the image list is the main image (when present) at position 1
\* followed by the gallery images at positions 2..N in their order, each
\* with the product title as alt text; the detail images are not in the
\* image list but follow the description (or the empty string) in the
\* body, in their order.
C24_ImagesAndBody ==
    tpc \in {"record", "rows"} =>
        LET first == IF raw.main_image # NoImage THEN 1 ELSE 0
            gallery == raw.gallery_images
            detail == raw.detail_images
        IN  /\ Len(shop.images) = first + Len(gallery)
            /\ first = 1 => shop.images[1] = [src |-> raw.main_image, position |-> 1,
                                             alt_text |-> raw.title]
            /\ \A i \in 1..Len(gallery) :
                  shop.images[first + i] = [src |-> gallery[i], position |-> i + 1,
                                            alt_text |-> raw.title]
            /\ \A k \in 1..Len(shop.images) : shop.images[k].src \notin Range(detail)
            /\ shop.body_html.html = (IF raw.description_html = None THEN ""
                                      ELSE raw.description_html)
            /\ Len(shop.body_html.imgs) = Len(detail)
            /\ \A i \in 1..Len(detail) : shop.body_html.imgs[i].src = detail[i]

\* a product with a main image, two gallery images, two detail images
\* and no description
C24_Witness ==
    /\ tpc = "record"
    /\ raw.main_image # NoImage
    /\ Len(raw.gallery_images) = 2
    /\ Len(raw.detail_images) = 2
    /\ raw.description_html = None
    /\ TruthyStr(raw.title)
    /\ Len(shop.images) = 3
    /\ shop.images[3].position = 3
    /\ Len(shop.body_html.imgs) = 2

\* ---------------------------------------------------------------------
\* Properties of _parse_price (checked under ParseSpec)
\* ---------------------------------------------------------------------
FromMeta ==
    /\ priceOut.price = to_float(content_of(pricePage.amount_meta))
    /\ priceOut.sale_price = to_float(content_of(pricePage.sale_meta))

FromSelectors ==
    /\ priceOut.price = to_float(text_of(pricePage.price_node))
    /\ priceOut.sale_price = to_float(text_of(pricePage.sale_node))

\* the text holds a number once separators and blanks are removed
Parsable(value) ==
    /\ TruthyStr(value)
    /\ IsFloat(strip(replace(replace(value.v, <<",">>), WonMojibake), Whitespace))

\* C25 as stated: price and sale_price come from the metadata tags
\* whenever the price metadata tag is present, and from the selector
\* texts only when it is absent.
C25_MetaWheneverPresent ==
    rpc = "parsed" =>
        IF pricePage.amount_meta.present THEN FromMeta ELSE FromSelectors

\* C25, amended: price and sale_price come from the metadata tags
\* whenever the content of the price metadata tag parses as a number, and
\* from the selector texts when that tag is absent, has no content or has
\* content that is not a number; a field whose text is not a number is
\* absent.
C25_MetaWheneverParsed ==
    rpc = "parsed" =>
        /\ IF Parsable(content_of(pricePage.amount_meta))
           THEN FromMeta /\ priceOut.price.has
           ELSE FromSelectors
        /\ ~Parsable(content_of(pricePage.amount_meta))
              /\ ~Parsable(text_of(pricePage.price_node)) => ~priceOut.price.has

\* the price metadata tag is present with content that is not a number
\* and the price is read from the selector text " 8,990"
C25_Witness ==
    /\ rpc = "parsed"
    /\ pricePage.amount_meta = Meta(Str(<<"U+20A9", "1", "1">>))
    /\ pricePage.sale_meta = Meta(Str(<<"9", ".", "5">>))
    /\ priceOut.price = Num(899000)
    /\ priceOut.sale_price = NoneNum

\* ---------------------------------------------------------------------
\* Properties of the run status (checked under RunLiveSpec and RunSpec)
\* ---------------------------------------------------------------------
\* C26: every run that was created eventually has status SUCCEEDED or
\* FAILED, whichever step of _run_background raises and also when
\* shutdown cancels its queued pipeline; no run stays QUEUED or RUNNING
\* forever.
C26_RunsEventuallySettle ==
    \A r \in RunIds :
        (StatusOf(runs, r) # "absent")
            ~> (StatusOf(runs, r) \in {"succeeded", "failed"})

\* C27: at most one run has status RUNNING, and a run has status RUNNING
\* only while its pipeline is executing on the worker.
C27_RunningMeansExecuting ==
    /\ Cardinality({r \in RunIds : StatusOf(runs, r) = "running"}) <= 1
    /\ \A r \in RunIds : StatusOf(runs, r) = "running" => r \in Executing(future)

\* ---------------------------------------------------------------------
\* Properties of the exported images (checked under TransformSpec)
\* ---------------------------------------------------------------------
\* C28: every entry of the images list of a record produced by
\* raw_to_shopify is the Image Src of at least one row of to_rows.
C28_NoImageLost ==
    tpc = "rows" =>
        \A k \in 1..Len(shop.images) :
            \E i \in 1..Len(rows) : rows[i]["Image Src"] = shop.images[k].src

\* ---------------------------------------------------------------------
\* Properties of the image files of one run (checked under ItemSpec)
\* ---------------------------------------------------------------------
\* C29: within one run no two image downloads write to the same file, so
\* no image file of one product is overwritten by an image of another
\* product.
C29_NoFileWrittenTwice ==
    \A i, j \in 1..Len(itemWrites) :
        i # j => itemWrites[i].path # itemWrites[j].path

\* ---------------------------------------------------------------------
\* Properties of InputLoader.load (checked under LoadSpec)
\* ---------------------------------------------------------------------
\* C30: every ProductInput that InputLoader.load returns, from a CSV or
\* a JSON document, has a non-empty URL: blank and whitespace-only
\* entries are skipped.
C30_NoEmptyUrl ==
    lpc = "loaded" /\ ~loadOut.raised =>
        \A k \in 1..Len(loadOut.urls) : loadOut.urls[k] # ""

====
